---- MODULE Spec2Model ----
(***************************************************************************)
(* A model of the mesh-shader renderer: the frame loop and its per-slot    *)
(* synchronisation (main.rs, render/renderer.rs, render/frame.rs), the     *)
(* device-local buffer upload and buffer ownership (render/buffer.rs),     *)
(* the meshlet packing and the address tables (render/mesh.rs), the        *)
(* per-instance draw (render/passes/geometry.rs, render/mesh.rs) and the   *)
(* life of RenderCtx from its construction to its drop                     *)
(* (render/render_ctx.rs, render/utils/mod.rs).                            *)
(* The mapped uniform buffers (render/globals.rs, render/mesh.rs), the     *)
(* timestamp queries (render/query_pool.rs) and the quad builder           *)
(* (render/mesh_builder.rs) close the module.                              *)
(*                                                                         *)
(* Each subsystem has its own specification over the shared variables;     *)
(* the variables of the other subsystems stay at their idle values.        *)
(***************************************************************************)
EXTENDS Integers, Sequences, FiniteSets, TLC

VARIABLES
    \* ---- frame loop (main.rs, renderer.rs) ----
    pc,                 \* the host's position in main / render_frame
    frame_count,        \* main.rs: frame_count
    frame_index,        \* main.rs: frame_index
    fence,              \* Frame.fence, per slot: TRUE = signaled
    present_semaphore,  \* Frame.present_semaphore, per slot
    render_semaphore,   \* Frame.render_semaphore, per slot
    command_buffer,     \* Frame.command_buffer, per slot: its Vulkan state
    gpu_queue,          \* batches submitted to direct_queue, not yet complete
    present_queue,      \* present requests handed to the presentation engine
    image_state,        \* per swapchain image
    image_index,        \* render_frame: image_index of the current frame
    \* ---- device-local upload (buffer.rs) ----
    upload,             \* the locals of the running Buffer::new_device_local
    uploads_done,       \* calls of new_device_local that have returned
    up_leaked,          \* objects no one owns any more and that were not destroyed
    \* ---- Buffer values and their allocations (buffer.rs) ----
    buffers,            \* the Buffer values: state, allocation, holder
    allocations,        \* the allocator's allocations: state, destroy_buffer calls
    \* ---- Mesh::new (mesh.rs) ----
    mesh_pc,            \* the position in Mesh::new
    level_i,            \* the level index i of (0..num_levels)
    index_count,        \* indices.len() of the optimized mesh
    clusters,           \* what build_meshlets returned for the level
    meshlet_data,       \* the level's meshlet_data
    index,              \* the write cursor `index`
    meshlets,           \* the level's Meshlet values collected so far
    \* ---- render_meshes / draw_mesh (geometry.rs, mesh.rs) ----
    draw_pc,            \* the position in render_meshes
    camera,             \* ctx.camera_rig.final_transform.position
    workgroup_size,     \* ctx.workgroup_size
    mesh_buffers,       \* MeshCollection.mesh_buffers: num_meshlets per mesh and level
    grid_i,             \* the loop variable i
    grid_j,             \* the loop variable j
    last_draw,          \* the push constants and group count of the latest draw
    \* ---- MeshCollection::new (mesh.rs) ----
    mc_pc,              \* the position in MeshCollection::new
    names,              \* the number of meshes asked for
    address_layout,     \* how the driver places the buffers it creates
    created,            \* device-local buffers created so far
    mc_mesh_buffers,    \* the local mesh_buffers: the buffer addresses per mesh and level
    mesh_level_addresses_buffer,  \* the uploaded level-address table
    mesh_addresses_buffer,        \* the uploaded mesh-address table
    \* ---- Mesh::new: loading and the level chain (mesh.rs) ----
    load_pc,            \* the position in Mesh::new
    obj_indices,        \* mesh.indices(): the face corners (p, t, n) of the file
    corner_i,           \* the loop variable i of the expansion loop
    vertices,           \* the per-corner `vertices` of line 86
    remap,              \* the remap table of generate_vertex_remap
    unique_vertices,    \* the `vertices` of line 108 and after
    indices,            \* the `indices` of line 109 and after
    level_geometry,     \* the (level_vertices, level_indices) chosen so far
    simplify_calls,     \* the arguments of the simplify_sloppy_decoder calls
    \* ---- the life of RenderCtx (render_ctx.rs, utils/mod.rs) ----
    run_pc,             \* the host's position in RenderCtx::new / main / drop
    layout_fence,       \* change_image_layout: the batch and its fence
    destroyed,          \* what Drop for RenderCtx has destroyed, in order
    \* ---- the mapped uniform buffers (mesh.rs, utils/globals.rs) ----
    glam_align,         \* the alignment the build gives glam's Mat4 and Vec4
    constants_buffer,   \* MeshCollection.constants_buffer
    uniform_buffer,     \* GlobalsBuffers.uniform_buffer
    \* ---- QueryPool (query_pool.rs) ----
    query_count,        \* QueryPool.query_count; 0: no pool created
    current_idx,        \* QueryPool.current_idx
    entries,            \* QueryPool.entries, as a set of <<name, index>>
    query_results,      \* what the latest get_results returned
    \* ---- MeshBuilder (mesh_builder.rs) ----
    mb_vertices,        \* MeshBuilder.vertices
    mb_indices,         \* MeshBuilder.indices
    mb_quads,           \* the quads added so far, counted per add_quad call
    mb_built            \* what build returned; <<>> before build

frameVars == <<pc, frame_count, frame_index, fence, present_semaphore,
               render_semaphore, command_buffer, gpu_queue, present_queue,
               image_state, image_index>>

uploadVars == <<upload, uploads_done, up_leaked>>

bufferVars == <<buffers, allocations>>

meshVars == <<mesh_pc, level_i, index_count, clusters, meshlet_data, index, meshlets>>

drawVars == <<draw_pc, camera, workgroup_size, mesh_buffers, grid_i, grid_j, last_draw>>

tableVars == <<mc_pc, names, address_layout, created, mc_mesh_buffers,
               mesh_level_addresses_buffer, mesh_addresses_buffer>>

loadVars == <<load_pc, obj_indices, corner_i, vertices, remap, unique_vertices,
              indices, level_geometry, simplify_calls>>

runVars == <<run_pc, layout_fence, destroyed>>

uniformVars == <<glam_align, constants_buffer, uniform_buffer>>

queryVars == <<query_count, current_idx, entries, query_results>>

builderVars == <<mb_vertices, mb_indices, mb_quads, mb_built>>

vars == <<frameVars, uploadVars, bufferVars, meshVars, drawVars, tableVars, loadVars,
          runVars, uniformVars, queryVars, builderVars>>

otherThanFrame == <<uploadVars, bufferVars, meshVars, drawVars, tableVars, loadVars, runVars,
    uniformVars, queryVars, builderVars>>
otherThanUpload == <<frameVars, bufferVars, meshVars, drawVars, tableVars, loadVars, runVars,
    uniformVars, queryVars, builderVars>>
otherThanBuffers == <<frameVars, uploadVars, meshVars, drawVars, tableVars, loadVars, runVars,
    uniformVars, queryVars, builderVars>>
otherThanMesh == <<frameVars, uploadVars, bufferVars, drawVars, tableVars, loadVars, runVars,
    uniformVars, queryVars, builderVars>>
otherThanDraw == <<frameVars, uploadVars, bufferVars, meshVars, tableVars, loadVars, runVars,
    uniformVars, queryVars, builderVars>>
otherThanTables == <<frameVars, uploadVars, bufferVars, meshVars, drawVars, loadVars, runVars,
    uniformVars, queryVars, builderVars>>
otherThanLoad == <<frameVars, uploadVars, bufferVars, meshVars, drawVars, tableVars, runVars,
    uniformVars, queryVars, builderVars>>
otherThanRun == <<bufferVars, meshVars, drawVars, tableVars, loadVars, uniformVars,
    queryVars, builderVars>>
otherThanUniforms == <<frameVars, uploadVars, bufferVars, meshVars, drawVars, tableVars,
    loadVars, runVars, queryVars, builderVars>>
otherThanQuery == <<frameVars, uploadVars, bufferVars, meshVars, drawVars, tableVars,
    loadVars, runVars, uniformVars, builderVars>>
otherThanBuilder == <<frameVars, uploadVars, bufferVars, meshVars, drawVars, tableVars,
    loadVars, runVars, uniformVars, queryVars>>

\* ---------------------------------------------------------------- bounds
\* The number of different values a field of a uniform struct is given.
MaxFieldValue == 2
\* The largest query_count a QueryPool is created with.
MaxQueryCount == 2
\* write_timestamp is called at most this many times between two resets.
MaxWrites == 4
\* A MeshBuilder is given at most this many quads.
MaxQuads == 4
\* The main loop is cut after this many frames.
MaxFrames == 4
\* The number of images the driver creates for the swapchain; create_swapchain
\* asks for at least min_image_count(2) (render_ctx.rs) and may get more.
SwapchainImages == 3
\* Calls of Buffer::new_device_local in one run.
MaxUploads == 2
\* Words in one uploaded slice.
MaxWords == 2
\* Buffer values (originals, clones) and allocations in one run.
MaxBufferValues == 4
MaxAllocations == 2
\* Clusters build_meshlets returns for one level.
MaxClusters == 2
\* Meshes handed to MeshCollection::new.
MaxMeshes == 2
\* Faces of the file Mesh::new reads.
MaxFaces == 2

\* ------------------------------------------------------- program constants
\* frame.rs: pub const NUM_FRAMES: usize = 2
NUM_FRAMES == 2
\* mesh.rs: const MAX_VERTICES: usize = 64
MAX_VERTICES == 64
\* mesh.rs: const MAX_TRIANGLES: usize = 124
MAX_TRIANGLES == 124
\* mesh.rs: let num_levels = 5
num_levels == 5

Slots == 0 .. (NUM_FRAMES - 1)
Images == 0 .. (SwapchainImages - 1)
NoImage == SwapchainImages

\* --------------------------------------------------- idle values of groups

\* No call of Buffer::new_device_local is running.
NoUpload ==
    [pc |-> "idle", data |-> <<>>, staging |-> "none", staging_data |-> <<>>,
     buffer |-> "none", buffer_data |-> <<>>, command_pool |-> "none",
     command_buffer |-> "none", fence |-> "none", fence_signaled |-> FALSE,
     copy |-> "none"]

IdleUpload ==
    /\ upload = NoUpload
    /\ uploads_done = 0
    /\ up_leaked = 0

\* No Buffer value exists.
IdleBuffers ==
    /\ buffers = <<>>
    /\ allocations = <<>>

\* Mesh::new has not been called.
IdleMesh ==
    /\ mesh_pc = "idle"
    /\ level_i = 0
    /\ index_count = 0
    /\ clusters = <<>>
    /\ meshlet_data = <<>>
    /\ index = 0
    /\ meshlets = <<>>

\* No draw has been recorded.
NoDraw ==
    [position |-> <<0, 0, 0>>, mesh_idx |-> -1, level_idx |-> 0,
     num_meshlets |-> 0, group_count_x |-> 0]

\* render_meshes has not been called.
IdleDraw ==
    /\ draw_pc = "idle"
    /\ camera = <<0, 0, 0>>
    /\ workgroup_size = 1
    /\ mesh_buffers = <<>>
    /\ grid_i = 0
    /\ grid_j = 0
    /\ last_draw = NoDraw

\* No device-local buffer.
NoBuffer == [device_address |-> 0, data |-> <<>>]

\* MeshCollection::new has not been called.
IdleTables ==
    /\ mc_pc = "idle"
    /\ names = 0
    /\ address_layout = "ascending"
    /\ created = 0
    /\ mc_mesh_buffers = <<>>
    /\ mesh_level_addresses_buffer = NoBuffer
    /\ mesh_addresses_buffer = NoBuffer

\* Mesh::new has not read a file.
IdleLoad ==
    /\ load_pc = "idle"
    /\ obj_indices = <<>>
    /\ corner_i = 0
    /\ vertices = <<>>
    /\ remap = <<>>
    /\ unique_vertices = <<>>
    /\ indices = <<>>
    /\ level_geometry = <<>>
    /\ simplify_calls = <<>>

\* MeshBuilder::new: both vectors empty.
IdleBuilder ==
    /\ mb_vertices = <<>>
    /\ mb_indices = <<>>
    /\ mb_quads = 0
    /\ mb_built = <<>>

\* No QueryPool has been created.
IdleQuery ==
    /\ query_count = 0
    /\ current_idx = 0
    /\ entries = {}
    /\ query_results = <<>>

\* No uniform buffer has been created.
NoUniform == [size |-> 0, words |-> <<>>, overrun |-> 0]

IdleUniforms ==
    /\ glam_align = 4
    /\ constants_buffer = NoUniform
    /\ uniform_buffer = NoUniform

\* No RenderCtx is being built, used or dropped.
IdleRun ==
    /\ run_pc = "idle"
    /\ layout_fence = "none"
    /\ destroyed = <<>>

\* The render loop has not started.
IdleFrame ==
    /\ pc = "not_started"
    /\ frame_count = 0
    /\ frame_index = 0
    /\ fence = [s \in Slots |-> TRUE]
    /\ present_semaphore = [s \in Slots |-> "unsignaled"]
    /\ render_semaphore = [s \in Slots |-> "unsignaled"]
    /\ command_buffer = [s \in Slots |-> "initial"]
    /\ gpu_queue = <<>>
    /\ present_queue = <<>>
    /\ image_state = [i \in Images |-> "free"]
    /\ image_index = NoImage

\* ------------------------------------------------------------- frame loop

\* Frame::new with the fence created without the SIGNALED flag.
FrameNewUnsignaled ==
    [fence |-> FALSE, present_semaphore |-> "unsignaled",
     render_semaphore |-> "unsignaled", command_buffer |-> "initial"]

\* Frame::new: the fence is created SIGNALED, the semaphores unsignaled, the
\* command buffer freshly allocated.
FrameNew ==
    [fence |-> TRUE, present_semaphore |-> "unsignaled",
     render_semaphore |-> "unsignaled", command_buffer |-> "initial"]

InitFrame ==
    /\ pc = "main_loop"
    /\ frame_count = 0
    /\ frame_index = 0
    /\ fence = [s \in Slots |-> FrameNew.fence]
    /\ present_semaphore = [s \in Slots |-> FrameNew.present_semaphore]
    /\ render_semaphore = [s \in Slots |-> FrameNew.render_semaphore]
    /\ command_buffer = [s \in Slots |-> FrameNew.command_buffer]
    /\ gpu_queue = <<>>
    /\ present_queue = <<>>
    /\ image_state = [i \in Images |-> "free"]
    /\ image_index = NoImage

\* The slots that have a batch on the GPU that has not completed.
SlotsInFlight == {gpu_queue[k].slot : k \in 1 .. Len(gpu_queue)}

\* The panic of render_frame caught in main and the loop carried on with the
\* next call of render_frame.
MainCallRenderFrameAfterPanic ==
    /\ pc \in {"main_loop", "panicked"}
    /\ frame_count < MaxFrames
    /\ pc' = "wait_for_fences"
    /\ UNCHANGED <<frame_count, frame_index, fence, present_semaphore,
                   render_semaphore, command_buffer, gpu_queue, present_queue,
                   image_state, image_index>>
    /\ UNCHANGED otherThanFrame

\* main.rs: while running { ...; renderer::render_frame(&render_ctx, &mut frame_index)
MainCallRenderFrame ==
    /\ pc = "main_loop"
    /\ frame_count < MaxFrames
    /\ pc' = "wait_for_fences"
    /\ UNCHANGED <<frame_count, frame_index, fence, present_semaphore,
                   render_semaphore, command_buffer, gpu_queue, present_queue,
                   image_state, image_index>>
    /\ UNCHANGED otherThanFrame

\* main.rs: running = false (CloseRequested / Escape) ends the loop.
MainQuit ==
    /\ pc = "main_loop"
    /\ pc' = "exited"
    /\ UNCHANGED <<frame_count, frame_index, fence, present_semaphore,
                   render_semaphore, command_buffer, gpu_queue, present_queue,
                   image_state, image_index>>
    /\ UNCHANGED otherThanFrame

\* A wait that gives up at once (a timeout of 0, its result ignored).
WaitForFencesNoWait(s) == TRUE

\* wait_for_fences(&[fence], true, u64::MAX): returns Ok only once the fence
\* is signaled.
WaitForFencesReturns(s) == fence[s]

\* renderer.rs 28-29
WaitForFences ==
    /\ pc = "wait_for_fences"
    /\ WaitForFencesReturns(frame_index)
    /\ pc' = "reset_fences"
    /\ UNCHANGED <<frame_count, frame_index, fence, present_semaphore,
                   render_semaphore, command_buffer, gpu_queue, present_queue,
                   image_state, image_index>>
    /\ UNCHANGED otherThanFrame

\* render_frame without its reset_fences call: the fence stays signaled.
ResetFencesForgotten ==
    /\ pc = "reset_fences"
    /\ pc' = "reset_command_pool"
    /\ UNCHANGED <<frame_count, frame_index, fence, present_semaphore,
                   render_semaphore, command_buffer, gpu_queue, present_queue,
                   image_state, image_index>>
    /\ UNCHANGED otherThanFrame

\* renderer.rs 30
ResetFences ==
    /\ pc = "reset_fences"
    /\ fence' = [fence EXCEPT ![frame_index] = FALSE]
    /\ pc' = "reset_command_pool"
    /\ UNCHANGED <<frame_count, frame_index, present_semaphore,
                   render_semaphore, command_buffer, gpu_queue, present_queue,
                   image_state, image_index>>
    /\ UNCHANGED otherThanFrame

\* renderer.rs 35
ResetCommandPool ==
    /\ pc = "reset_command_pool"
    /\ command_buffer' = [command_buffer EXCEPT ![frame_index] = "initial"]
    /\ pc' = "acquire_next_image"
    /\ UNCHANGED <<frame_count, frame_index, fence, present_semaphore,
                   render_semaphore, gpu_queue, present_queue,
                   image_state, image_index>>
    /\ UNCHANGED otherThanFrame

\* renderer.rs 37-39: acquire_next_image(swapchain, u64::MAX, present_semaphore,
\* null) returns the index of an image the presentation engine can hand out;
\* the semaphore is signaled later, when the image may be written.
AcquireNextImage ==
    /\ pc = "acquire_next_image"
    /\ \E i \in Images :
          /\ image_state[i] = "free"
          /\ image_state' = [image_state EXCEPT ![i] = "acquired"]
          /\ image_index' = i
    /\ present_semaphore' = [present_semaphore EXCEPT ![frame_index] = "pending"]
    /\ pc' = "begin_command_buffer"
    /\ UNCHANGED <<frame_count, frame_index, fence, render_semaphore,
                   command_buffer, gpu_queue, present_queue>>
    /\ UNCHANGED otherThanFrame

\* renderer.rs 41-43
BeginCommandBuffer ==
    /\ pc = "begin_command_buffer"
    /\ command_buffer' = [command_buffer EXCEPT ![frame_index] = "recording"]
    /\ pc' = "record"
    /\ UNCHANGED <<frame_count, frame_index, fence, present_semaphore,
                   render_semaphore, gpu_queue, present_queue,
                   image_state, image_index>>
    /\ UNCHANGED otherThanFrame

\* renderer.rs 45-115: barriers, begin rendering, render_frame_inner, end rendering
RecordCommands ==
    /\ pc = "record"
    /\ pc' = "end_command_buffer"
    /\ UNCHANGED <<frame_count, frame_index, fence, present_semaphore,
                   render_semaphore, command_buffer, gpu_queue, present_queue,
                   image_state, image_index>>
    /\ UNCHANGED otherThanFrame

\* renderer.rs 117
EndCommandBuffer ==
    /\ pc = "end_command_buffer"
    /\ command_buffer' = [command_buffer EXCEPT ![frame_index] = "executable"]
    /\ pc' = "queue_submit"
    /\ UNCHANGED <<frame_count, frame_index, fence, present_semaphore,
                   render_semaphore, gpu_queue, present_queue,
                   image_state, image_index>>
    /\ UNCHANGED otherThanFrame

\* renderer.rs 119-128: the batch waits on present_semaphore and signals
\* render_semaphore and the slot's fence.
QueueSubmit ==
    /\ pc = "queue_submit"
    /\ gpu_queue' = Append(gpu_queue, [slot |-> frame_index, frame |-> frame_count,
                                       image |-> image_index])
    /\ command_buffer' = [command_buffer EXCEPT ![frame_index] = "pending"]
    /\ pc' = "queue_present"
    /\ UNCHANGED <<frame_count, frame_index, fence, present_semaphore,
                   render_semaphore, present_queue, image_state, image_index>>
    /\ UNCHANGED otherThanFrame

\* queue_present called only once the queue has drained, as after a
\* queue_wait_idle placed before it.
QueuePresentAfterQueueIdle ==
    /\ pc = "queue_present"
    /\ gpu_queue = <<>>
    /\ present_queue' = Append(present_queue, [slot |-> frame_index,
                                               frame |-> frame_count,
                                               image |-> image_index])
    /\ image_state' = [image_state EXCEPT ![image_index] = "queued"]
    /\ pc' = "main_inc"
    /\ UNCHANGED <<frame_count, frame_index, fence, present_semaphore,
                   render_semaphore, command_buffer, gpu_queue, image_index>>
    /\ UNCHANGED otherThanFrame

\* renderer.rs 130-135: the present request waits on render_semaphore.
QueuePresent ==
    /\ pc = "queue_present"
    /\ present_queue' = Append(present_queue, [slot |-> frame_index,
                                               frame |-> frame_count,
                                               image |-> image_index])
    /\ image_state' = [image_state EXCEPT ![image_index] = "queued"]
    /\ pc' = "main_inc"
    /\ UNCHANGED <<frame_count, frame_index, fence, present_semaphore,
                   render_semaphore, command_buffer, gpu_queue, image_index>>
    /\ UNCHANGED otherThanFrame

\* frame_index taken from the frame counter before its increment.
MainNextFrameStaleCount ==
    /\ pc = "main_inc"
    /\ frame_count' = frame_count + 1
    /\ frame_index' = frame_count % NUM_FRAMES
    /\ pc' = "main_loop"
    /\ UNCHANGED <<fence, present_semaphore, render_semaphore, command_buffer,
                   gpu_queue, present_queue, image_state, image_index>>
    /\ UNCHANGED otherThanFrame

\* main.rs 114-115: frame_count += 1; frame_index = frame_count % frames.len()
MainNextFrame ==
    /\ pc = "main_inc"
    /\ frame_count' = frame_count + 1
    /\ frame_index' = (frame_count + 1) % NUM_FRAMES
    /\ pc' = "main_loop"
    /\ UNCHANGED <<fence, present_semaphore, render_semaphore, command_buffer,
                   gpu_queue, present_queue, image_state, image_index>>
    /\ UNCHANGED otherThanFrame

\* The calls of render_frame whose Err is unwrapped: a failure panics.
FalliblePcs == {"wait_for_fences", "reset_fences", "reset_command_pool",
                "acquire_next_image", "begin_command_buffer",
                "end_command_buffer", "queue_submit", "queue_present"}

\* renderer.rs 29-43, 117-135: .unwrap() on an Err
RenderFramePanic ==
    /\ pc \in FalliblePcs
    /\ pc' = "panicked"
    /\ UNCHANGED <<frame_count, frame_index, fence, present_semaphore,
                   render_semaphore, command_buffer, gpu_queue, present_queue,
                   image_state, image_index>>
    /\ UNCHANGED otherThanFrame

\* The presentation engine makes the acquired image available: the semaphore
\* given to acquire_next_image is signaled.
ImageAvailable ==
    \E s \in Slots :
        /\ present_semaphore[s] = "pending"
        /\ present_semaphore' = [present_semaphore EXCEPT ![s] = "signaled"]
        /\ UNCHANGED <<pc, frame_count, frame_index, fence, render_semaphore,
                       command_buffer, gpu_queue, present_queue, image_state,
                       image_index>>
    /\ UNCHANGED otherThanFrame

\* The GPU runs the oldest batch of the queue: its semaphore wait is satisfied
\* (and the semaphore unsignaled again), its commands execute, then
\* render_semaphore and the fence given to queue_submit are signaled.
GpuComplete ==
    /\ gpu_queue # <<>>
    /\ LET b == Head(gpu_queue) IN
          /\ present_semaphore[b.slot] = "signaled"
          /\ present_semaphore' = [present_semaphore EXCEPT ![b.slot] = "unsignaled"]
          /\ render_semaphore' = [render_semaphore EXCEPT ![b.slot] = "signaled"]
          /\ fence' = [fence EXCEPT ![b.slot] = TRUE]
          /\ command_buffer' = [command_buffer EXCEPT ![b.slot] =
                                   IF @ = "pending" THEN "invalid" ELSE @]
    /\ gpu_queue' = Tail(gpu_queue)
    /\ UNCHANGED <<pc, frame_count, frame_index, present_queue, image_state,
                   image_index>>
    /\ UNCHANGED otherThanFrame

\* A present request given no semaphore to wait on.
PresentCompleteNoWait ==
    /\ present_queue # <<>>
    /\ LET p == Head(present_queue) IN
          /\ render_semaphore' = [render_semaphore EXCEPT ![p.slot] = "unsignaled"]
          /\ image_state' = [i \in Images |->
                                IF i = p.image THEN "displayed"
                                ELSE IF image_state[i] = "displayed" THEN "free"
                                ELSE image_state[i]]
    /\ present_queue' = Tail(present_queue)
    /\ UNCHANGED <<pc, frame_count, frame_index, fence, present_semaphore,
                   command_buffer, gpu_queue, image_index>>
    /\ UNCHANGED otherThanFrame

\* The presentation engine runs the oldest present request once its
\* render_semaphore is signaled; the image shown before goes back to the
\* swapchain.
PresentComplete ==
    /\ present_queue # <<>>
    /\ LET p == Head(present_queue) IN
          /\ render_semaphore[p.slot] = "signaled"
          /\ render_semaphore' = [render_semaphore EXCEPT ![p.slot] = "unsignaled"]
          /\ image_state' = [i \in Images |->
                                IF i = p.image THEN "displayed"
                                ELSE IF image_state[i] = "displayed" THEN "free"
                                ELSE image_state[i]]
    /\ present_queue' = Tail(present_queue)
    /\ UNCHANGED <<pc, frame_count, frame_index, fence, present_semaphore,
                   command_buffer, gpu_queue, image_index>>
    /\ UNCHANGED otherThanFrame

NextFrame ==
    \/ MainCallRenderFrame
    \/ MainQuit
    \/ WaitForFences
    \/ ResetFences
    \/ ResetCommandPool
    \/ AcquireNextImage
    \/ BeginCommandBuffer
    \/ RecordCommands
    \/ EndCommandBuffer
    \/ QueueSubmit
    \/ QueuePresent
    \/ MainNextFrame
    \/ RenderFramePanic
    \/ ImageAvailable
    \/ GpuComplete
    \/ PresentComplete

InitFrameSpec == InitFrame /\ IdleUpload /\ IdleBuffers /\ IdleMesh /\ IdleDraw /\ IdleTables /\ IdleLoad /\ IdleRun /\ IdleUniforms /\ IdleQuery /\ IdleBuilder

SpecFrame == InitFrameSpec /\ [][NextFrame]_vars

\* ------------------------------------------------------------ frame claims

\* The host has passed the fence wait of the current frame and has not yet
\* submitted it.
HostOwnsSlot ==
    pc \in {"reset_fences", "reset_command_pool", "acquire_next_image",
            "begin_command_buffer", "record", "end_command_buffer",
            "queue_submit"}

\* C1: at most NUM_FRAMES = 2 submissions are outstanding (submitted and not
\* complete, their fence unsignaled) at any time, no slot has two of them, and
\* when render_frame is about to submit frame k, frame k-2 and every earlier
\* frame have completed on the GPU.
C1_AtMostTwoFramesInFlight ==
    /\ Len(gpu_queue) <= 2
    /\ \A a, b \in 1 .. Len(gpu_queue) :
          a # b => gpu_queue[a].slot # gpu_queue[b].slot
    /\ \A a \in 1 .. Len(gpu_queue) : ~fence[gpu_queue[a].slot]
    /\ pc = "queue_submit" =>
          \A a \in 1 .. Len(gpu_queue) : gpu_queue[a].frame > frame_count - 2

\* C1 witness: frame k >= 2 is about to be submitted while frame k-1 is still
\* on the GPU.
C1_Witness ==
    /\ pc = "queue_submit"
    /\ frame_count >= 2
    /\ Len(gpu_queue) = 1
    /\ gpu_queue[1].frame = frame_count - 1

\* C2: whenever render_frame is at reset_fences, reset_command_pool or
\* begin_command_buffer (anywhere between its fence wait and its submit), the
\* batch submitted earlier with the same slot is no longer on the GPU.
C2_NoResetWhileExecuting ==
    HostOwnsSlot => frame_index \notin SlotsInFlight

\* C2 witness: a reused slot is being reset and re-recorded while the other
\* slot's batch is still executing.
C2_Witness ==
    /\ pc \in {"reset_command_pool", "begin_command_buffer"}
    /\ frame_count >= NUM_FRAMES
    /\ SlotsInFlight # {}

\* ------------------------------------------------ Buffer::new_device_local

\* The data slices handed to new_device_local: up to MaxWords words.
UploadData ==
    UNION {[1 .. n -> {17, 42}] : n \in 0 .. MaxWords}

\* What a copy reads from a source that was destroyed under it.
Garbage == <<255>>

\* Objects the call created and has not destroyed; `withBuffer` counts the
\* destination too (on an error return no Buffer value takes it over).
LiveObjects(u, withBuffer) ==
      (IF u.staging = "live" THEN 1 ELSE 0)
    + (IF u.command_pool = "live" THEN 1 ELSE 0)
    + (IF u.fence = "live" THEN 1 ELSE 0)
    + (IF withBuffer /\ u.buffer = "live" THEN 1 ELSE 0)

\* mesh.rs 207-209, 257, 274: a caller invokes Buffer::new_device_local(.., data)
UploadCall ==
    /\ upload.pc \in {"idle", "returned_ok", "returned_err"}
    /\ uploads_done < MaxUploads
    /\ \E d \in UploadData :
          upload' = [NoUpload EXCEPT !.pc = "create_staging", !.data = d]
    /\ UNCHANGED <<uploads_done, up_leaked>>
    /\ UNCHANGED otherThanUpload

\* buffer.rs 45-53: create_buffer(TRANSFER_SRC, MAPPED) succeeded
UploadCreateStaging ==
    /\ upload.pc = "create_staging"
    /\ upload' = [upload EXCEPT !.pc = "memcpy", !.staging = "live"]
    /\ UNCHANGED <<uploads_done, up_leaked>>
    /\ UNCHANGED otherThanUpload

\* buffer.rs 55: memcpy(mapped_data, data, size)
UploadMemcpy ==
    /\ upload.pc = "memcpy"
    /\ upload' = [upload EXCEPT !.pc = "create_buffer", !.staging_data = upload.data]
    /\ UNCHANGED <<uploads_done, up_leaked>>
    /\ UNCHANGED otherThanUpload

\* buffer.rs 57-66: create_buffer(TRANSFER_DST | STORAGE_BUFFER | SHADER_DEVICE_ADDRESS)
UploadCreateBuffer ==
    /\ upload.pc = "create_buffer"
    /\ upload' = [upload EXCEPT !.pc = "get_buffer_device_address", !.buffer = "live"]
    /\ UNCHANGED <<uploads_done, up_leaked>>
    /\ UNCHANGED otherThanUpload

\* buffer.rs 68
UploadGetAddress ==
    /\ upload.pc = "get_buffer_device_address"
    /\ upload' = [upload EXCEPT !.pc = "create_command_pool"]
    /\ UNCHANGED <<uploads_done, up_leaked>>
    /\ UNCHANGED otherThanUpload

\* buffer.rs 70
UploadCreateCommandPool ==
    /\ upload.pc = "create_command_pool"
    /\ upload' = [upload EXCEPT !.pc = "allocate_command_buffers",
                                !.command_pool = "live"]
    /\ UNCHANGED <<uploads_done, up_leaked>>
    /\ UNCHANGED otherThanUpload

\* buffer.rs 71
UploadAllocateCommandBuffers ==
    /\ upload.pc = "allocate_command_buffers"
    /\ upload' = [upload EXCEPT !.pc = "create_fence", !.command_buffer = "live"]
    /\ UNCHANGED <<uploads_done, up_leaked>>
    /\ UNCHANGED otherThanUpload

\* buffer.rs 72: FenceCreateInfo::default(), so the fence starts unsignaled
UploadCreateFence ==
    /\ upload.pc = "create_fence"
    /\ upload' = [upload EXCEPT !.pc = "begin_command_buffer", !.fence = "live",
                                !.fence_signaled = FALSE]
    /\ UNCHANGED <<uploads_done, up_leaked>>
    /\ UNCHANGED otherThanUpload

\* buffer.rs 74-76: begin_command_buffer, cmd_copy_buffer, end_command_buffer
UploadRecord ==
    /\ upload.pc \in {"begin_command_buffer", "cmd_copy_buffer", "end_command_buffer"}
    /\ upload' = [upload EXCEPT !.pc =
                     CASE upload.pc = "begin_command_buffer" -> "cmd_copy_buffer"
                       [] upload.pc = "cmd_copy_buffer" -> "end_command_buffer"
                       [] OTHER -> "queue_submit"]
    /\ UNCHANGED <<uploads_done, up_leaked>>
    /\ UNCHANGED otherThanUpload

\* buffer.rs 78-80: queue_submit(queue, [command_buffer], fence)
UploadQueueSubmit ==
    /\ upload.pc = "queue_submit"
    /\ upload' = [upload EXCEPT !.pc = "wait_for_fences", !.copy = "submitted"]
    /\ UNCHANGED <<uploads_done, up_leaked>>
    /\ UNCHANGED otherThanUpload

\* The upload without its wait: the call goes on at once.
UploadWaitSkipped(u) == TRUE

\* buffer.rs 82: wait_for_fences(&[fence], true, u64::MAX) returns Ok only once
\* the fence is signaled.
UploadWaitReturns(u) == u.fence_signaled

\* buffer.rs 82
UploadWaitForFences ==
    /\ upload.pc = "wait_for_fences"
    /\ UploadWaitReturns(upload)
    /\ upload' = [upload EXCEPT !.pc = "destroy_fence"]
    /\ UNCHANGED <<uploads_done, up_leaked>>
    /\ UNCHANGED otherThanUpload

\* buffer.rs 84
UploadDestroyFence ==
    /\ upload.pc = "destroy_fence"
    /\ upload' = [upload EXCEPT !.pc = "free_command_buffers", !.fence = "destroyed"]
    /\ UNCHANGED <<uploads_done, up_leaked>>
    /\ UNCHANGED otherThanUpload

\* buffer.rs 85
UploadFreeCommandBuffers ==
    /\ upload.pc = "free_command_buffers"
    /\ upload' = [upload EXCEPT !.pc = "destroy_command_pool",
                                !.command_buffer = "destroyed"]
    /\ UNCHANGED <<uploads_done, up_leaked>>
    /\ UNCHANGED otherThanUpload

\* buffer.rs 86
UploadDestroyCommandPool ==
    /\ upload.pc = "destroy_command_pool"
    /\ upload' = [upload EXCEPT !.pc = "destroy_staging",
                                !.command_pool = "destroyed"]
    /\ UNCHANGED <<uploads_done, up_leaked>>
    /\ UNCHANGED otherThanUpload

\* buffer.rs 88: destroy_buffer(allocator, staging_buffer, staging_buffer_allocation)
UploadDestroyStaging ==
    /\ upload.pc = "destroy_staging"
    /\ upload' = [upload EXCEPT !.pc = "return_ok", !.staging = "destroyed"]
    /\ UNCHANGED <<uploads_done, up_leaked>>
    /\ UNCHANGED otherThanUpload

\* buffer.rs 90-98: Ok(Buffer { buffer, allocation, .. })
UploadReturnOk ==
    /\ upload.pc = "return_ok"
    /\ upload' = [upload EXCEPT !.pc = "returned_ok"]
    /\ uploads_done' = uploads_done + 1
    /\ up_leaked' = up_leaked + LiveObjects(upload, FALSE)
    /\ UNCHANGED otherThanUpload

\* The calls of new_device_local whose Err leaves through `?`.
UploadTryPcs == {"create_staging", "create_buffer", "create_command_pool",
                 "allocate_command_buffers", "create_fence"}

\* buffer.rs 53, 66, 70, 71, 72: the call failed and `?` returns the Err; the
\* raw handles held in locals are dropped without being destroyed.
UploadReturnErr ==
    /\ upload.pc \in UploadTryPcs
    /\ upload' = [upload EXCEPT !.pc = "returned_err"]
    /\ uploads_done' = uploads_done + 1
    /\ up_leaked' = up_leaked + LiveObjects(upload, TRUE)
    /\ UNCHANGED otherThanUpload

\* buffer.rs 74, 76, 80, 82: .unwrap() on an Err
UploadPanic ==
    /\ upload.pc \in {"begin_command_buffer", "end_command_buffer", "queue_submit",
                      "wait_for_fences"}
    /\ upload' = [upload EXCEPT !.pc = "panicked"]
    /\ UNCHANGED <<uploads_done, up_leaked>>
    /\ UNCHANGED otherThanUpload

\* The GPU executes the submitted copy: the destination receives what the
\* staging buffer holds (whatever is there, if the staging buffer is gone), and
\* the fence given to queue_submit is signaled.
UploadGpuCopy ==
    /\ upload.copy = "submitted"
    /\ upload' = [upload EXCEPT !.copy = "complete",
                                !.buffer_data = IF upload.staging = "live"
                                                THEN upload.staging_data
                                                ELSE Garbage,
                                !.fence_signaled = TRUE]
    /\ UNCHANGED <<uploads_done, up_leaked>>
    /\ UNCHANGED otherThanUpload

NextUpload ==
    \/ UploadCall
    \/ UploadCreateStaging
    \/ UploadMemcpy
    \/ UploadCreateBuffer
    \/ UploadGetAddress
    \/ UploadCreateCommandPool
    \/ UploadAllocateCommandBuffers
    \/ UploadCreateFence
    \/ UploadRecord
    \/ UploadQueueSubmit
    \/ UploadWaitForFences
    \/ UploadDestroyFence
    \/ UploadFreeCommandBuffers
    \/ UploadDestroyCommandPool
    \/ UploadDestroyStaging
    \/ UploadReturnOk
    \/ UploadReturnErr
    \/ UploadPanic
    \/ UploadGpuCopy

InitUploadSpec == IdleFrame /\ IdleUpload /\ IdleBuffers /\ IdleMesh /\ IdleDraw /\ IdleTables /\ IdleLoad /\ IdleRun /\ IdleUniforms /\ IdleQuery /\ IdleBuilder

SpecUpload == InitUploadSpec /\ [][NextUpload]_vars

\* C3: while the copy submitted by new_device_local has not completed on the
\* GPU, the call is still at its fence wait (or has panicked there): it has not
\* returned, and the staging buffer, the command pool, the command buffer and
\* the fence are all still alive. A call that returned Ok has a completed copy
\* and a destination holding the data passed in.
C3_UploadWaitsForCopy ==
    /\ upload.copy = "submitted" =>
          /\ upload.pc \in {"wait_for_fences", "panicked"}
          /\ upload.staging = "live"
          /\ upload.command_pool = "live"
          /\ upload.command_buffer = "live"
          /\ upload.fence = "live"
    /\ upload.pc = "returned_ok" =>
          /\ upload.copy = "complete"
          /\ upload.buffer_data = upload.data

\* C3 witness: a call with data returned Ok after its copy completed and its
\* temporaries were destroyed.
C3_Witness ==
    /\ upload.pc = "returned_ok"
    /\ upload.copy = "complete"
    /\ upload.staging = "destroyed"
    /\ upload.fence = "destroyed"
    /\ Len(upload.data) > 0

\* ------------------------------------------------------- Buffer ownership

BufferIds == 1 .. MaxBufferValues
AllocationIds == 1 .. MaxAllocations

\* The structures a Buffer value can be held by.
Holders == {"local", "MeshLevelBuffers", "MeshCollection"}

LiveBuffers == {v \in BufferIds : buffers[v].state = "live"}
UnusedBuffers == {v \in BufferIds : buffers[v].state = "none"}
UnusedAllocations == {a \in AllocationIds : allocations[a].state = "none"}

\* buffer.rs 20-40, 42-99: new_uniform / new_device_local return
\* Ok(Buffer { buffer, allocation, .. }) for an allocation made by create_buffer.
BufferNew ==
    /\ UnusedBuffers # {} /\ UnusedAllocations # {}
    /\ LET v == CHOOSE x \in UnusedBuffers : \A y \in UnusedBuffers : x <= y
           a == CHOOSE x \in UnusedAllocations : \A y \in UnusedAllocations : x <= y
       IN /\ buffers' = [buffers EXCEPT ![v] =
                            [state |-> "live", allocation |-> a, holder |-> "local"]]
          /\ allocations' = [allocations EXCEPT ![a] =
                            [state |-> "allocated", destroy_calls |-> 0]]
    /\ UNCHANGED otherThanBuffers

\* buffer.rs 8: #[derive(Clone)] copies every field, the vk::Buffer and
\* Allocation handles included: the clone names the same allocation.
BufferClone ==
    /\ UnusedBuffers # {}
    /\ \E src \in LiveBuffers :
          LET v == CHOOSE x \in UnusedBuffers : \A y \in UnusedBuffers : x <= y
          IN buffers' = [buffers EXCEPT ![v] =
                            [state |-> "live",
                             allocation |-> buffers[src].allocation,
                             holder |-> "local"]]
    /\ UNCHANGED allocations
    /\ UNCHANGED otherThanBuffers

\* mesh.rs 211-216, 300-306: a Buffer is moved into the structure that holds it.
BufferMove ==
    /\ \E v \in LiveBuffers, h \in Holders :
          /\ buffers[v].holder # h
          /\ buffers' = [buffers EXCEPT ![v].holder = h]
    /\ UNCHANGED allocations
    /\ UNCHANGED otherThanBuffers

\* buffer.rs 102-109: Drop for Buffer calls
\* destroy_buffer(self.allocator, self.buffer, self.allocation).
BufferDrop ==
    /\ \E v \in LiveBuffers :
          LET a == buffers[v].allocation IN
          /\ buffers' = [buffers EXCEPT ![v].state = "dropped"]
          /\ allocations' = [allocations EXCEPT
                                ![a].state = "destroyed",
                                ![a].destroy_calls = @ + 1]
    /\ UNCHANGED otherThanBuffers

NextBuffers ==
    \/ BufferNew
    \/ BufferClone
    \/ BufferMove
    \/ BufferDrop

InitBuffers ==
    /\ buffers = [v \in BufferIds |->
                     [state |-> "none", allocation |-> 0, holder |-> "local"]]
    /\ allocations = [a \in AllocationIds |->
                     [state |-> "none", destroy_calls |-> 0]]

InitBuffersSpec == IdleFrame /\ IdleUpload /\ InitBuffers /\ IdleMesh /\ IdleDraw /\ IdleTables /\ IdleLoad /\ IdleRun /\ IdleUniforms /\ IdleQuery /\ IdleBuilder

SpecBuffers == InitBuffersSpec /\ [][NextBuffers]_vars

\* C4: no allocation is handed to destroy_buffer twice, and once every Buffer
\* value has been dropped every allocation made has been destroyed exactly once.
C4_FreedExactlyOnce ==
    /\ \A a \in AllocationIds : allocations[a].destroy_calls <= 1
    /\ LiveBuffers = {} =>
          \A a \in AllocationIds :
              allocations[a].state # "none" => allocations[a].destroy_calls = 1

\* ------------------------------------------------------- Mesh::new: packing

\* (x as u32) << n. The operands are u8 values moved by at most 24 bits or
\* small offsets moved by 2, so no bit leaves the 32-bit word; the values the
\* model uses stay below 2^31, the largest integer of the checker.
Shl32(x, n) == x * 2 ^ n

\* x >> n
Shr(x, n) == x \div 2 ^ n

RECURSIVE BitOr(_, _)
\* a | b
BitOr(a, b) ==
    IF a = 0 THEN b
    ELSE IF b = 0 THEN a
    ELSE (IF a % 2 = 1 \/ b % 2 = 1 THEN 1 ELSE 0) + 2 * BitOr(a \div 2, b \div 2)

\* slice.get(i).copied().unwrap_or_default() on a 0-based index
GetOrDefault(seq, i) == IF i < Len(seq) THEN seq[i + 1] ELSE 0

RECURSIVE SumOver(_, _)
\* iter().map(f).sum() over a sequence of naturals
SumOver(seq, k) == IF k = 0 THEN 0 ELSE seq[k] + SumOver(seq, k - 1)

\* The clusters the model lets meshopt::build_meshlets return: (vertex count,
\* triangle count, index pattern). The contract of build_meshlets keeps those
\* within the maxima it is given.
ClusterShapes ==
    { <<3, 1, "asc">>, <<4, 2, "desc">>, <<5, 3, "asc">>, <<6, 4, "stride">>,
      <<7, 5, "desc">>, <<64, 1, "desc">>, <<64, 124, "stride">>,
      <<100, 60, "asc">>, <<3, 126, "asc">> }

\* The local index (u8) at 0-based position k of a cluster's index stream.
PatternIndex(pat, k, nv) ==
    CASE pat = "asc" -> k % nv
      [] pat = "desc" -> (nv - 1) - (k % nv)
      [] OTHER -> (7 * k + 3) % nv

\* A meshopt::Meshlet: `vertices` maps local to global vertex indices,
\* `triangles` holds three local indices (u8) per triangle.
MakeCluster(shape, vbase) ==
    [vertices |-> [k \in 1 .. shape[1] |-> vbase + (k - 1)],
     triangles |-> [k \in 1 .. 3 * shape[2] |->
                       PatternIndex(shape[3], k - 1, shape[1])]]

\* What build_meshlets(indices, vertices, max_vertices, max_triangles, _) may emit.
BuildMeshletsContract(shape, max_vertices, max_triangles) ==
    /\ 1 <= shape[1] /\ shape[1] <= max_vertices
    /\ 1 <= shape[2] /\ shape[2] <= max_triangles

\* build_meshlets called with the two maxima in each other's place.
BuildMeshletsArgsSwapped(shape) ==
    BuildMeshletsContract(shape, MAX_TRIANGLES, MAX_VERTICES)

\* mesh.rs 129-135: build_meshlets(.., MAX_VERTICES, MAX_TRIANGLES, CONE_WEIGHT)
BuildMeshletsMayEmit(shape) ==
    BuildMeshletsContract(shape, MAX_VERTICES, MAX_TRIANGLES)

\* Triangles in a list of clusters.
TrianglesIn(cs) ==
    SumOver([k \in 1 .. Len(cs) |-> Len(cs[k].triangles) \div 3], Len(cs))

\* mesh.rs 124: the simplifier's target, indices.len() >> i
SimplifyTarget(n, i) == Shr(n, i)

\* mesh.rs 137: the words reserved for one meshlet
ReservedWords(c) == Len(c.vertices) + Shr(Len(c.triangles) * 3 + 3, 2)

\* mesh.rs 137: num_meshlet_data
NumMeshletData(cs) ==
    SumOver([k \in 1 .. Len(cs) |-> ReservedWords(cs[k])], Len(cs))

\* The word count taken from the number of triangles instead of the number
\* of local indices.
NumPackedIndicesPerTriangle(c) == Shr((Len(c.triangles) \div 3) + 3, 2)

\* mesh.rs 152: num_packed_indices
NumPackedIndices(c) == Shr(Len(c.triangles) + 3, 2)

\* The index stream packed with the lanes in the opposite order.
PackedWordLittleEndian(tri, j) ==
    LET o == Shl32(j, 2) IN
    BitOr(BitOr(BitOr(tri[o + 1],
                      Shl32(GetOrDefault(tri, o + 1), 8)),
                Shl32(GetOrDefault(tri, o + 2), 16)),
          Shl32(GetOrDefault(tri, o + 3), 24))

\* mesh.rs 154-158: the j-th packed word of a cluster's index stream
PackedWord(tri, j) ==
    LET triangle_offset == Shl32(j, 2) IN
    BitOr(BitOr(BitOr(Shl32(tri[triangle_offset + 1], 24),
                      Shl32(GetOrDefault(tri, triangle_offset + 1), 16)),
                Shl32(GetOrDefault(tri, triangle_offset + 2), 8)),
          GetOrDefault(tri, triangle_offset + 3))

\* data_offset read after the vertex loop has moved the cursor.
DataOffsetAfterVertices(cursor, c) == cursor + Len(c.vertices)

\* mesh.rs 145: let data_offset = index
DataOffset(cursor, c) == cursor

\* mesh.rs 147-160: the words written for one cluster, from the cursor on
ClusterWords(c) ==
    c.vertices \o [j \in 1 .. NumPackedIndices(c) |-> PackedWord(c.triangles, j - 1)]

\* triangle_count taken to be the length of the index stream.
TriangleCountNotDivided(c) == Len(c.triangles)

\* mesh.rs 162: (meshlet.triangles.len() / 3)
TriangleCountOf(c) == Len(c.triangles) \div 3

\* mesh.rs 162: Meshlet::new(data_offset, vertices.len(), triangles.len() / 3)
MeshletNew(cursor, c) ==
    [data_offset |-> DataOffset(cursor, c),
     vertex_count |-> Len(c.vertices),
     triangle_count |-> TriangleCountOf(c)]

\* mesh.rs 83, 117-120: Mesh::new starts the level loop
MeshNew ==
    /\ mesh_pc = "idle"
    /\ mesh_pc' = "build_meshlets"
    /\ level_i' = 0
    /\ UNCHANGED <<index_count, clusters, meshlet_data, index, meshlets>>
    /\ UNCHANGED otherThanMesh

\* mesh.rs 121-135: build_meshlets emits one more cluster of the level's
\* geometry. Level 0 is the input mesh; a level i > 0 has at most
\* indices.len() >> i indices after simplify_sloppy_decoder.
BuildMeshletsEmit ==
    /\ mesh_pc = "build_meshlets"
    /\ Len(clusters) < MaxClusters
    /\ \E shape \in ClusterShapes :
          /\ BuildMeshletsMayEmit(shape)
          /\ level_i > 0 =>
                3 * (TrianglesIn(clusters) + shape[2]) <= SimplifyTarget(index_count, level_i)
          /\ clusters' = Append(clusters, MakeCluster(shape, 9 * Len(clusters)))
    /\ UNCHANGED <<mesh_pc, level_i, index_count, meshlet_data, index, meshlets>>
    /\ UNCHANGED otherThanMesh

\* mesh.rs 129-141: build_meshlets returns; meshlet_data = vec![0; num_meshlet_data],
\* index = 0
BuildMeshletsReturn ==
    /\ mesh_pc = "build_meshlets"
    /\ index_count' = IF level_i = 0 THEN 3 * TrianglesIn(clusters) ELSE index_count
    /\ meshlet_data' = [k \in 1 .. NumMeshletData(clusters) |-> 0]
    /\ index' = 0
    /\ meshlets' = <<>>
    /\ mesh_pc' = "pack"
    /\ UNCHANGED <<level_i, clusters>>
    /\ UNCHANGED otherThanMesh

\* mesh.rs 144-163: the closure packs the next cluster; a write past the end of
\* meshlet_data panics.
PackMeshlet ==
    /\ mesh_pc = "pack"
    /\ Len(meshlets) < Len(clusters)
    /\ LET c == clusters[Len(meshlets) + 1]
           words == ClusterWords(c)
       IN IF index + Len(words) > Len(meshlet_data)
          THEN /\ mesh_pc' = "panicked"
               /\ UNCHANGED <<meshlet_data, index, meshlets>>
          ELSE /\ meshlet_data' = SubSeq(meshlet_data, 1, index) \o words
                                  \o SubSeq(meshlet_data, index + Len(words) + 1,
                                            Len(meshlet_data))
               /\ index' = index + Len(words)
               /\ meshlets' = Append(meshlets, MeshletNew(index, c))
               /\ UNCHANGED mesh_pc
    /\ UNCHANGED <<level_i, index_count, clusters>>
    /\ UNCHANGED otherThanMesh

\* mesh.rs 164-170: collect() ends, the MeshLevel is built
MeshLevelBuilt ==
    /\ mesh_pc = "pack"
    /\ Len(meshlets) = Len(clusters)
    /\ mesh_pc' = "level_built"
    /\ UNCHANGED <<level_i, index_count, clusters, meshlet_data, index, meshlets>>
    /\ UNCHANGED otherThanMesh

\* mesh.rs 118-120, 172: the next level of (0..num_levels), or Ok(Self { levels })
MeshNextLevel ==
    /\ mesh_pc = "level_built"
    /\ level_i' = level_i + 1
    /\ IF level_i + 1 < num_levels
       THEN /\ mesh_pc' = "build_meshlets"
            /\ clusters' = <<>>
            /\ meshlet_data' = <<>>
            /\ index' = 0
            /\ meshlets' = <<>>
       ELSE /\ mesh_pc' = "returned"
            /\ UNCHANGED <<clusters, meshlet_data, index, meshlets>>
    /\ UNCHANGED index_count
    /\ UNCHANGED otherThanMesh

NextMesh ==
    \/ MeshNew
    \/ BuildMeshletsEmit
    \/ BuildMeshletsReturn
    \/ PackMeshlet
    \/ MeshLevelBuilt
    \/ MeshNextLevel

InitMeshSpec == IdleFrame /\ IdleUpload /\ IdleBuffers /\ IdleMesh /\ IdleDraw /\ IdleTables /\ IdleLoad /\ IdleRun /\ IdleUniforms /\ IdleQuery /\ IdleBuilder

SpecMesh == InitMeshSpec /\ [][NextMesh]_vars

\* The byte of a packed word in lane 0 (bits 31..24) to lane 3 (bits 7..0).
ByteLane(word, lane) == (word \div 2 ^ (8 * (3 - lane))) % 256

\* ceil(triangle_count * 3 / 4): the packed words of a meshlet
PackedWordsOf(m) == (3 * m.triangle_count + 3) \div 4

\* The p-th (0-based) local index read back from the blob for meshlet m.
UnpackedIndex(m, p) ==
    ByteLane(meshlet_data[m.data_offset + m.vertex_count + (p \div 4) + 1], p % 4)

\* The word range [first, last) a meshlet occupies in the blob.
RangeEnd(m) == m.data_offset + m.vertex_count + PackedWordsOf(m)

\* The meshlets produced so far for the level being built.
Produced == 1 .. Len(meshlets)

\* C5: for every meshlet produced by Mesh::new, the bytes read from the words
\* at data_offset + vertex_count in the order 31..24, 23..16, 15..8, 7..0 are
\* exactly the 3 * triangle_count local indices of its cluster, in order, and
\* the lanes of the last word beyond that count are zero.
C5_PackingRoundTrip ==
    \A k \in Produced :
        LET m == meshlets[k]
            c == clusters[k]
        IN /\ 3 * m.triangle_count = Len(c.triangles)
           /\ RangeEnd(m) <= Len(meshlet_data)
           /\ \A p \in 0 .. (3 * m.triangle_count - 1) :
                  UnpackedIndex(m, p) = c.triangles[p + 1]
           /\ \A p \in (3 * m.triangle_count) .. (4 * PackedWordsOf(m) - 1) :
                  UnpackedIndex(m, p) = 0

\* A level of two meshlets is built whose second meshlet has 5 triangles: 15
\* indices in 4 words, the last lane of the last word unused.
C5_Witness ==
    /\ mesh_pc = "level_built"
    /\ Len(meshlets) = 2
    /\ meshlets[2].triangle_count = 5
    /\ meshlets[2].data_offset > 0
    /\ \E p \in 0 .. 14 : UnpackedIndex(meshlets[2], p) # 0

\* C6: every meshlet of a level ends within the level's blob, and the word
\* ranges of two different meshlets of the level do not overlap.
C6_RangesWithinBlobAndDisjoint ==
    /\ \A k \in Produced : RangeEnd(meshlets[k]) <= Len(meshlet_data)
    /\ \A k1, k2 \in Produced :
          k1 < k2 =>
              \/ RangeEnd(meshlets[k1]) <= meshlets[k2].data_offset
              \/ RangeEnd(meshlets[k2]) <= meshlets[k1].data_offset

\* A level is built with a meshlet of fewer vertices after one of more.
C6_Witness ==
    /\ mesh_pc = "level_built"
    /\ Len(meshlets) = 2
    /\ meshlets[2].vertex_count < meshlets[1].vertex_count
    /\ meshlets[2].data_offset = RangeEnd(meshlets[1])

\* C7: every meshlet stored in a level has at most 64 vertices, at most 124
\* triangles and at least one triangle.
C7_MeshletCaps ==
    \A k \in Produced :
        /\ meshlets[k].vertex_count <= 64
        /\ meshlets[k].triangle_count <= 124
        /\ meshlets[k].triangle_count >= 1

\* Mesh::new returns after a level held a meshlet at both maxima and a
\* level held a meshlet of a single triangle.
C7_Witness ==
    /\ mesh_pc = "level_built"
    /\ Len(meshlets) = 2
    /\ meshlets[1].vertex_count = 64
    /\ meshlets[1].triangle_count = 124
    /\ meshlets[2].triangle_count = 1

\* ------------------------------------------- render_meshes and draw_mesh

\* geometry.rs 262-263: for i in 0..25, for j in 0..25
GridSize == 25

\* Positions are vectors of integers in units of 0.05; the arithmetic of f32
\* is taken to be exact.

\* geometry.rs 255: Vec3::new(-120.43, -2.325, -160.1), to the nearest unit
GroundPosition == <<-2409, -47, -3202>>

\* Where the camera may stand while a frame is recorded: Position::new(Vec3::Y)
\* of render_ctx.rs 336, and places the keys of main.rs 51-110 move it to.
CameraPositions ==
    { <<0, 20, 0>>, <<0, 20, 1300>>, <<0, 20, 100>>, <<1680, 20, 0>>,
      <<-2400, 20, -3200>>, <<200, -52, 3000>> }

\* physical_device_mesh_shader_properties.max_preferred_mesh_work_group_invocations
WorkgroupSizes == {1, 32, 128}

\* What the four sources of render_ctx.rs 349-378 may load to: num_meshlets of
\* every level of every mesh, num_levels levels each.
MeshCollections ==
    { << <<1, 1, 0, 0, 0>>, <<300, 150, 75, 38, 19>>,
         <<64, 32, 16, 8, 4>>, <<33, 17, 9, 5, 3>> >>,
      << <<1, 0, 0, 0, 0>>, <<5, 3, 2, 1, 1>>,
         <<2, 1, 1, 1, 0>>, <<1, 1, 1, 1, 1>> >> }

\* geometry.rs 265-272: hash_code & 255 of the cell; DefaultHasher is not
\* modelled, the byte is one of those that give a turn by 0 or by PI.
HashBytes == {0, 255}

\* a.min(b)
Min(a, b) == IF a <= b THEN a ELSE b

\* x.clamp(lo, hi)
Clamp(x, lo, hi) == IF x < lo THEN lo ELSE IF x > hi THEN hi ELSE x

\* The square of Vec3::distance
Distance2(a, b) ==
    (a[1] - b[1]) * (a[1] - b[1]) + (a[2] - b[2]) * (a[2] - b[2])
        + (a[3] - b[3]) * (a[3] - b[3])

RECURSIVE ScaledFloorFrom(_, _)
\* The largest n at or above the given one with n <= 0.08 * d, where d is the
\* distance whose square (in units of 0.05) is d2: (250 n)^2 <= d2.
ScaledFloorFrom(d2, n) ==
    IF 62500 * (n + 1) * (n + 1) > d2 THEN n ELSE ScaledFloorFrom(d2, n + 1)

\* geometry.rs 290-291: (distance * 0.08) as u32
ScaledDistance(d2) == ScaledFloorFrom(d2, 0)

\* geometry.rs 271, 284: Quat::from_rotation_y(angle) * v for
\* angle = byte / 255 * PI with the byte 0 or 255
RotateY(byte, v) == IF byte = 0 THEN v ELSE <<-v[1], v[2], -v[3]>>

\* geometry.rs 274: let mesh_idx = ((i + j) % 4) + 1
CellMeshIdx(i, j) == ((i + j) % 4) + 1

\* geometry.rs 275-283: y_offset of the cell
CellYOffset(mesh_idx) ==
    IF mesh_idx = 1 THEN -52 ELSE IF mesh_idx = 2 THEN 56 ELSE -65

\* geometry.rs 283: Vec3::new(i as f32 * 7.0, y_offset, j as f32 * 5.0)
CellTranslation(i, j) == <<140 * i, CellYOffset(CellMeshIdx(i, j)), 100 * j>>

\* geometry.rs 286-292: level_idx of a cell whose hash byte is given
CellLevelIdx(i, j, byte) ==
    LET max_level_idx == Len(mesh_buffers[CellMeshIdx(i, j) + 1]) IN
    Min(ScaledDistance(Distance2(camera, RotateY(byte, CellTranslation(i, j)))),
        max_level_idx)

\* mesh.rs 380: (num_meshlets * workgroup_size + workgroup_size - 1) / workgroup_size
TaskGroups(num_meshlets, wg) == (num_meshlets * wg + wg - 1) \div wg

\* mesh.rs 352: self.mesh_buffers[mesh_idx as usize] is in range
MeshIdxInRange(mesh_idx) == mesh_idx < Len(mesh_buffers)

\* mesh.rs 337-384: draw_mesh for a mesh_idx in range: the push constants and
\* the group count of cmd_draw_mesh_tasks
DrawMesh(position, mesh_idx, level_idx) ==
    LET levels == mesh_buffers[mesh_idx + 1]
        clamped == Clamp(level_idx, 0, Len(levels) - 1)
        num_meshlets == levels[clamped + 1]
    IN [position |-> position, mesh_idx |-> mesh_idx, level_idx |-> clamped,
        num_meshlets |-> num_meshlets,
        group_count_x |-> TaskGroups(num_meshlets, workgroup_size)]

\* geometry.rs 252-260: the first draw, mesh 0 at level 0
RenderMeshesGround ==
    /\ draw_pc = "ground"
    /\ IF MeshIdxInRange(0)
       THEN /\ last_draw' = DrawMesh(GroundPosition, 0, 0)
            /\ draw_pc' = "grid"
       ELSE /\ draw_pc' = "panicked"
            /\ UNCHANGED last_draw
    /\ UNCHANGED <<camera, workgroup_size, mesh_buffers, grid_i, grid_j>>
    /\ UNCHANGED otherThanDraw

\* geometry.rs 262-305: one pass of the inner loop body, then the next cell or
\* the return; an index past the end of mesh_buffers panics
RenderMeshesCell ==
    /\ draw_pc = "grid"
    /\ LET mesh_idx == CellMeshIdx(grid_i, grid_j) IN
       IF MeshIdxInRange(mesh_idx)
       THEN /\ \E byte \in HashBytes :
                  last_draw' = DrawMesh(CellTranslation(grid_i, grid_j), mesh_idx,
                                        CellLevelIdx(grid_i, grid_j, byte))
            /\ grid_j' = IF grid_j + 1 < GridSize THEN grid_j + 1 ELSE 0
            /\ grid_i' = IF grid_j + 1 < GridSize THEN grid_i ELSE grid_i + 1
            /\ draw_pc' = IF grid_j + 1 < GridSize \/ grid_i + 1 < GridSize
                          THEN "grid" ELSE "returned"
       ELSE /\ draw_pc' = "panicked"
            /\ UNCHANGED <<grid_i, grid_j, last_draw>>
    /\ UNCHANGED <<camera, workgroup_size, mesh_buffers>>
    /\ UNCHANGED otherThanDraw

NextDraw ==
    \/ RenderMeshesGround
    \/ RenderMeshesCell

\* render_meshes is entered with the context built by RenderCtx::new.
InitDraw ==
    /\ draw_pc = "ground"
    /\ camera \in CameraPositions
    /\ workgroup_size \in WorkgroupSizes
    /\ mesh_buffers \in MeshCollections
    /\ grid_i = 0
    /\ grid_j = 0
    /\ last_draw = NoDraw

InitDrawSpec == IdleFrame /\ IdleUpload /\ IdleBuffers /\ IdleMesh /\ InitDraw /\ IdleTables /\ IdleLoad /\ IdleRun /\ IdleUniforms /\ IdleQuery /\ IdleBuilder

SpecDraw == InitDrawSpec /\ [][NextDraw]_vars

\* The draws recorded: the states right after a draw_mesh call.
Drawn == last_draw.mesh_idx # -1

\* ceil(n / d)
CeilDiv(n, d) == (n + d - 1) \div d

\* C8: for every instance drawn by render_meshes the pushed level index is
\* min(floor(d * 0.08), L), d the distance from the camera to the instance and
\* L the mesh's level count minus one.
C8_LevelFromDistance ==
    Drawn =>
        last_draw.level_idx =
            Min(ScaledDistance(Distance2(camera, last_draw.position)),
                Len(mesh_buffers[last_draw.mesh_idx + 1]) - 1)

\* C9: the group count of every draw is ceil(num_meshlets / workgroup_size).
C9_TaskGroupsCeil ==
    Drawn => last_draw.group_count_x = CeilDiv(last_draw.num_meshlets, workgroup_size)

\* ------------------------------------------------- MeshCollection::new

\* mem::size_of::<vk::DeviceAddress>()
SizeOfDeviceAddress == 8

\* The ways the driver may place the buffers it creates, one after another.
AddressLayouts == {"ascending", "descending", "scattered"}

\* buffer.rs 68: get_buffer_device_address of the k-th buffer created (k from
\* 0). Buffers are 1024 bytes apart, more than any buffer of the model holds.
DeviceAddressOf(layout, k) ==
    CASE layout = "ascending" -> 1024 * (1 + k)
      [] layout = "descending" -> 1024 * (64 - k)
      [] OTHER -> 1024 * (1 + ((7 * k) % 61))

\* mesh.rs 206-217: MeshLevelBuffers::new, three calls of new_device_local
MeshLevelBuffersNew(layout, k) ==
    [vertex_buffer |-> DeviceAddressOf(layout, k),
     meshlet_buffer |-> DeviceAddressOf(layout, k + 1),
     meshlet_data_buffer |-> DeviceAddressOf(layout, k + 2)]

RECURSIVE FlatMap(_, _)
\* iter().flat_map(f) over a sequence of sequences: their concatenation
FlatMap(seqs, k) == IF k = 0 THEN <<>> ELSE FlatMap(seqs, k - 1) \o seqs[k]

\* mesh.rs 245-255: mesh_level_addresses
MeshLevelAddresses(mbs) ==
    LET levels == FlatMap(mbs, Len(mbs)) IN
    FlatMap([k \in 1 .. Len(levels) |->
                <<levels[k].vertex_buffer, levels[k].meshlet_buffer,
                  levels[k].meshlet_data_buffer>>],
            Len(levels))

\* offset advanced by one per mesh.
NextOffsetByOne(offset, levels) == offset + 1

\* mesh.rs 268: offset += mesh_buffers.levels.len()
NextOffset(offset, levels) == offset + Len(levels)

RECURSIVE OffsetBefore(_, _)
\* mesh.rs 260, 268: offset when the closure runs for the m-th mesh (m from 1)
OffsetBefore(mbs, m) ==
    IF m = 1 THEN 0 ELSE NextOffset(OffsetBefore(mbs, m - 1), mbs[m - 1])

\* mesh.rs 264-267: the two words of a mesh
MeshAddressEntry(mbs, m, base) ==
    <<base + OffsetBefore(mbs, m) * 3 * SizeOfDeviceAddress, Len(mbs[m])>>

\* mesh.rs 259-272: mesh_addresses
MeshAddresses(mbs, base) ==
    FlatMap([m \in 1 .. Len(mbs) |-> MeshAddressEntry(mbs, m, base)], Len(mbs))

\* mesh.rs 230-238: MeshCollection::new is called with a list of names
MeshCollectionNew ==
    /\ mc_pc = "idle"
    /\ \E n \in 1 .. MaxMeshes : names' = n
    /\ \E layout \in AddressLayouts : address_layout' = layout
    /\ mc_pc' = "mesh_buffers"
    /\ UNCHANGED <<created, mc_mesh_buffers, mesh_level_addresses_buffer,
                   mesh_addresses_buffer>>
    /\ UNCHANGED otherThanTables

\* mesh.rs 184-191, 240-243: MeshBuffers::new starts the next mesh
MeshBuffersNew ==
    /\ mc_pc = "mesh_buffers"
    /\ Len(mc_mesh_buffers) < names
    /\ IF mc_mesh_buffers = <<>> THEN TRUE
       ELSE Len(mc_mesh_buffers[Len(mc_mesh_buffers)]) = num_levels
    /\ mc_mesh_buffers' = Append(mc_mesh_buffers, <<>>)
    /\ UNCHANGED <<mc_pc, names, address_layout, created,
                   mesh_level_addresses_buffer, mesh_addresses_buffer>>
    /\ UNCHANGED otherThanTables

\* mesh.rs 187-191: the buffers of the next level of the mesh being loaded
MeshBuffersLevel ==
    /\ mc_pc = "mesh_buffers"
    /\ mc_mesh_buffers # <<>>
    /\ LET m == Len(mc_mesh_buffers) IN
       /\ Len(mc_mesh_buffers[m]) < num_levels
       /\ mc_mesh_buffers' =
             [mc_mesh_buffers EXCEPT
                 ![m] = Append(@, MeshLevelBuffersNew(address_layout, created))]
    /\ created' = created + 3
    /\ UNCHANGED <<mc_pc, names, address_layout, mesh_level_addresses_buffer,
                   mesh_addresses_buffer>>
    /\ UNCHANGED otherThanTables

\* mesh.rs 245-257: mesh_level_addresses is collected and uploaded
UploadMeshLevelAddresses ==
    /\ mc_pc = "mesh_buffers"
    /\ Len(mc_mesh_buffers) = names
    /\ Len(mc_mesh_buffers[names]) = num_levels
    /\ mesh_level_addresses_buffer' =
          [device_address |-> DeviceAddressOf(address_layout, created),
           data |-> MeshLevelAddresses(mc_mesh_buffers)]
    /\ created' = created + 1
    /\ mc_pc' = "mesh_addresses"
    /\ UNCHANGED <<names, address_layout, mc_mesh_buffers, mesh_addresses_buffer>>
    /\ UNCHANGED otherThanTables

\* mesh.rs 259-274: mesh_addresses is collected and uploaded
UploadMeshAddresses ==
    /\ mc_pc = "mesh_addresses"
    /\ mesh_addresses_buffer' =
          [device_address |-> DeviceAddressOf(address_layout, created),
           data |-> MeshAddresses(mc_mesh_buffers,
                                  mesh_level_addresses_buffer.device_address)]
    /\ created' = created + 1
    /\ mc_pc' = "descriptor_set"
    /\ UNCHANGED <<names, address_layout, mc_mesh_buffers, mesh_level_addresses_buffer>>
    /\ UNCHANGED otherThanTables

\* mesh.rs 276-306: the descriptor set is allocated and written, Ok(Self)
MeshCollectionReturnOk ==
    /\ mc_pc = "descriptor_set"
    /\ mc_pc' = "returned"
    /\ UNCHANGED <<names, address_layout, created, mc_mesh_buffers,
                   mesh_level_addresses_buffer, mesh_addresses_buffer>>
    /\ UNCHANGED otherThanTables

\* mesh.rs 243, 257, 274, 280: a `?` returns the Err of a failed step; the
\* locals built so far are dropped
MeshCollectionReturnErr ==
    /\ mc_pc \in {"mesh_buffers", "mesh_addresses", "descriptor_set"}
    /\ mc_pc' = "failed"
    /\ mc_mesh_buffers' = <<>>
    /\ mesh_level_addresses_buffer' = NoBuffer
    /\ mesh_addresses_buffer' = NoBuffer
    /\ UNCHANGED <<names, address_layout, created>>
    /\ UNCHANGED otherThanTables

NextTables ==
    \/ MeshCollectionNew
    \/ MeshBuffersNew
    \/ MeshBuffersLevel
    \/ UploadMeshLevelAddresses
    \/ UploadMeshAddresses
    \/ MeshCollectionReturnOk
    \/ MeshCollectionReturnErr

InitTablesSpec == IdleFrame /\ IdleUpload /\ IdleBuffers /\ IdleMesh /\ IdleDraw /\ IdleTables /\ IdleLoad /\ IdleRun /\ IdleUniforms /\ IdleQuery /\ IdleBuilder

SpecTables == InitTablesSpec /\ [][NextTables]_vars

\* The 8-byte word a reader finds at a device address: a word of one of the
\* two tables, or -1 where neither table lies.
ReadDeviceWord(address) ==
    LET InTable(b) ==
            /\ address >= b.device_address
            /\ address < b.device_address + SizeOfDeviceAddress * Len(b.data)
            /\ (address - b.device_address) % SizeOfDeviceAddress = 0
        WordOf(b) == b.data[((address - b.device_address) \div SizeOfDeviceAddress) + 1]
    IN IF InTable(mesh_level_addresses_buffer) THEN WordOf(mesh_level_addresses_buffer)
       ELSE IF InTable(mesh_addresses_buffer) THEN WordOf(mesh_addresses_buffer)
       ELSE -1

\* The entry of mesh m (from 0) in the mesh-address table: (A_m, level count).
MeshEntry(m) ==
    <<ReadDeviceWord(mesh_addresses_buffer.device_address + (2 * m) * SizeOfDeviceAddress),
      ReadDeviceWord(mesh_addresses_buffer.device_address + (2 * m + 1) * SizeOfDeviceAddress)>>

\* The address of the entry of level l of mesh m in the level-address table.
LevelEntryAddress(m, l) == MeshEntry(m)[1] + l * 3 * SizeOfDeviceAddress

\* The (mesh, level) pairs of the collection, both from 0.
MeshLevelPairs ==
    {p \in (0 .. (Len(mc_mesh_buffers) - 1)) \X (0 .. (num_levels - 1)) :
        p[2] < Len(mc_mesh_buffers[p[1] + 1])}

\* C10: after MeshCollection::new has succeeded, the mesh-address table holds
\* (A_m, level count) for every mesh m, the three words at A_m + l * 3 * 8 of
\* the level-address table are the addresses of the vertex, meshlet and
\* meshlet-data buffers of level l of mesh m, and the entries of two different
\* (mesh, level) pairs do not overlap.
C10_AddressTables ==
    mc_pc = "returned" =>
        /\ Len(mesh_addresses_buffer.data) = 2 * Len(mc_mesh_buffers)
        /\ \A m \in 0 .. (Len(mc_mesh_buffers) - 1) :
              MeshEntry(m)[2] = Len(mc_mesh_buffers[m + 1])
        /\ \A p \in MeshLevelPairs :
              LET level == mc_mesh_buffers[p[1] + 1][p[2] + 1]
                  a == LevelEntryAddress(p[1], p[2])
              IN /\ ReadDeviceWord(a) = level.vertex_buffer
                 /\ ReadDeviceWord(a + SizeOfDeviceAddress) = level.meshlet_buffer
                 /\ ReadDeviceWord(a + 2 * SizeOfDeviceAddress) = level.meshlet_data_buffer
        /\ \A p, q \in MeshLevelPairs :
              p # q =>
                  \/ LevelEntryAddress(p[1], p[2]) + 3 * SizeOfDeviceAddress
                        <= LevelEntryAddress(q[1], q[2])
                  \/ LevelEntryAddress(q[1], q[2]) + 3 * SizeOfDeviceAddress
                        <= LevelEntryAddress(p[1], p[2])

\* MeshCollection::new has returned Ok for two meshes, the buffers placed
\* neither in ascending nor in descending order of creation.
C10_Witness ==
    /\ mc_pc = "returned"
    /\ Len(mc_mesh_buffers) = 2
    /\ address_layout = "scattered"
    /\ Len(mesh_level_addresses_buffer.data) = 2 * num_levels * 3

\* ------------------------------------ Mesh::new: loading and the level chain

\* mesh.positions(), mesh.texcoords(), mesh.normals(): flat f32 arrays, the
\* integers standing for bit patterns. Entry 0 of each is the dummy element of
\* fast_obj; positions 1 and 2 hold the same values.
positions == <<0, 0, 0, 1, 0, 0, 1, 0, 0>>
tex_coords == <<0, 0, 5, 6>>
normals == <<0, 0, 0, 0, 1, 0>>

\* A face corner: fastObjIndex (p, t, n)
Corner(p, t, n) == [p |-> p, t |-> t, n |-> n]

\* The faces a file may list. The last three have a corner whose position,
\* texture-coordinate or normal index is outside its array.
ObjFaces ==
    { <<Corner(0, 0, 0), Corner(1, 1, 1), Corner(2, 1, 1)>>,
      <<Corner(1, 1, 1), Corner(1, 0, 1), Corner(0, 0, 0)>>,
      <<Corner(2, 1, 1), Corner(0, 0, 0), Corner(1, 0, 1)>>,
      <<Corner(0, 0, 0), Corner(3, 0, 0), Corner(1, 1, 1)>>,
      <<Corner(0, 0, 0), Corner(1, 2, 1), Corner(1, 1, 1)>>,
      <<Corner(1, 1, 1), Corner(0, 0, 0), Corner(0, 0, 2)>> }

\* The index arrays of the files of 1 .. MaxFaces faces.
ObjIndexArrays ==
    UNION { { FlatMap(fs, Len(fs)) : fs \in [1 .. n -> ObjFaces] } : n \in 1 .. MaxFaces }

\* Default::default() of Vertex
DefaultVertex == [position |-> <<0, 0, 0>>, tex_coord |-> <<0, 0>>, normal |-> <<0, 0, 0>>]

\* Only the position index is checked against its array.
CornerInBoundsPositionOnly(c) == 3 * c.p + 2 < Len(positions)

\* mesh.rs 94-101: every slice index of the corner is within its slice
CornerInBounds(c) ==
    /\ 3 * c.p + 2 < Len(positions)
    /\ 2 * c.t + 1 < Len(tex_coords)
    /\ 3 * c.n + 2 < Len(normals)

\* mesh.rs 94-102: the Vertex of a corner whose indices are in bounds
ExpandedVertex(c) ==
    LET position_idx == 3 * c.p
        tex_coord_idx == 2 * c.t
        normal_idx == 3 * c.n
    IN [position |-> <<GetOrDefault(positions, position_idx),
                       GetOrDefault(positions, position_idx + 1),
                       GetOrDefault(positions, position_idx + 2)>>,
        tex_coord |-> <<GetOrDefault(tex_coords, tex_coord_idx),
                        GetOrDefault(tex_coords, tex_coord_idx + 1)>>,
        normal |-> <<GetOrDefault(normals, normal_idx),
                     GetOrDefault(normals, normal_idx + 1),
                     GetOrDefault(normals, normal_idx + 2)>>]

\* The first position (from 1) holding the same bytes as position i.
FirstOccurrence(vs, i) == CHOOSE k \in 1 .. i : vs[k] = vs[i] /\ \A h \in 1 .. (k - 1) : vs[h] # vs[i]

\* mesh.rs 105: meshopt::generate_vertex_remap(&vertices, None): equal bytes
\* get one index, the indices are given in the order of first occurrence
GenerateVertexRemap(vs) ==
    [i \in 1 .. Len(vs) |->
        Cardinality({k \in 1 .. (FirstOccurrence(vs, i) - 1) : FirstOccurrence(vs, k) = k})]

\* mesh.rs 105: vertex_count
UniqueVertexCount(vs) == Cardinality({k \in 1 .. Len(vs) : FirstOccurrence(vs, k) = k})

\* mesh.rs 108: meshopt::remap_vertex_buffer(&vertices, vertex_count, &remap)
RemapVertexBuffer(vs, vertex_count, rm) ==
    [u \in 1 .. vertex_count |-> vs[CHOOSE i \in 1 .. Len(vs) : rm[i] = u - 1]]

\* The index buffer left as 0, 1, 2, ...
RemapIndexBufferIdentity(count, rm) == [i \in 1 .. count |-> i - 1]

\* mesh.rs 109: meshopt::remap_index_buffer(None, indices.len(), &remap)
RemapIndexBuffer(count, rm) == [i \in 1 .. count |-> rm[i]]

\* mesh.rs 84-91: the file is read, vertices = vec![Default::default(); indices.len()]
MeshNewLoad ==
    /\ load_pc = "idle"
    /\ \E ix \in ObjIndexArrays :
          /\ obj_indices' = ix
          /\ vertices' = [i \in 1 .. Len(ix) |-> DefaultVertex]
    /\ corner_i' = 0
    /\ load_pc' = "expand"
    /\ UNCHANGED <<remap, unique_vertices, indices, level_geometry, simplify_calls>>
    /\ UNCHANGED otherThanLoad

\* mesh.rs 84: fast_obj::Mesh::new(path)? fails, Mesh::new returns the Err
MeshNewLoadErr ==
    /\ load_pc = "idle"
    /\ load_pc' = "err"
    /\ UNCHANGED <<obj_indices, corner_i, vertices, remap, unique_vertices, indices,
                   level_geometry, simplify_calls>>
    /\ UNCHANGED otherThanLoad

\* mesh.rs 93-103: one pass of the expansion loop; a slice index out of bounds
\* panics
ExpandCorner ==
    /\ load_pc = "expand"
    /\ corner_i < Len(obj_indices)
    /\ LET c == obj_indices[corner_i + 1] IN
       IF CornerInBounds(c)
       THEN /\ vertices' = [vertices EXCEPT ![corner_i + 1] = ExpandedVertex(c)]
            /\ corner_i' = corner_i + 1
            /\ UNCHANGED load_pc
       ELSE /\ load_pc' = "panicked"
            /\ UNCHANGED <<vertices, corner_i>>
    /\ UNCHANGED <<obj_indices, remap, unique_vertices, indices, level_geometry,
                   simplify_calls>>
    /\ UNCHANGED otherThanLoad

\* mesh.rs 105-109: the remap table, then the unique vertices and the indices
RemapVertices ==
    /\ load_pc = "expand"
    /\ corner_i = Len(obj_indices)
    /\ LET rm == GenerateVertexRemap(vertices)
           vertex_count == UniqueVertexCount(vertices)
       IN /\ remap' = rm
          /\ unique_vertices' = RemapVertexBuffer(vertices, vertex_count, rm)
          /\ indices' = RemapIndexBuffer(Len(obj_indices), rm)
    /\ load_pc' = "remapped"
    /\ UNCHANGED <<obj_indices, corner_i, vertices, level_geometry, simplify_calls>>
    /\ UNCHANGED otherThanLoad

\* The triangles of an index buffer, as triples.
TrianglesOf(ix) ==
    [t \in 1 .. (Len(ix) \div 3) |-> <<ix[3 * t - 2], ix[3 * t - 1], ix[3 * t]>>]

\* The last triangle first.
ReverseTriangles(ix) ==
    LET ts == TrianglesOf(ix) IN
    FlatMap([t \in 1 .. Len(ts) |-> ts[Len(ts) + 1 - t]], Len(ts))

\* mesh.rs 111-112: optimize_vertex_cache_in_place and
\* optimize_overdraw_in_place_decoder put the triangles in another order; the
\* model lets them keep the order or reverse it.
TriangleOrders(ix) == {ix, ReverseTriangles(ix)}

\* mesh.rs 113, 125: optimize_vertex_fetch: the vertices an index buffer
\* uses, in the order of their first use, and the indices renamed to match
FetchIndices(ix) == GenerateVertexRemap(ix)
FetchVertices(ix, vs) ==
    [u \in 1 .. UniqueVertexCount(ix) |->
        vs[ix[CHOOSE i \in 1 .. Len(ix) : FetchIndices(ix)[i] = u - 1] + 1]]

\* Each level simplified from the level before it.
SimplifySourceIndicesPrevious(i) == level_geometry[i].indices

\* mesh.rs 124: the first argument, `indices` of the enclosing function
SimplifySourceIndices(i) == indices

\* mesh.rs 124: the arguments of simplify_sloppy_decoder for level i
SimplifyCall(i) ==
    [source_indices |-> SimplifySourceIndices(i),
     source_vertices |-> unique_vertices,
     target_index_count |-> Shr(Len(SimplifySourceIndices(i)), i),
     target_error |-> 100]

\* What simplify_sloppy_decoder may return for a call: triangles over the
\* source's vertices, no more indices than the target; the model takes them
\* from the front of the source.
SimplifyResults(call) ==
    { SubSeq(call.source_indices, 1, 3 * t) :
        t \in 0 .. (Min(call.target_index_count, Len(call.source_indices)) \div 3) }

\* mesh.rs 111-113: the three optimisation passes
OptimizeMesh ==
    /\ load_pc = "remapped"
    /\ \E ordered \in TriangleOrders(indices) :
          /\ indices' = FetchIndices(ordered)
          /\ unique_vertices' = FetchVertices(ordered, unique_vertices)
    /\ load_pc' = "levels"
    /\ UNCHANGED <<obj_indices, corner_i, vertices, remap, level_geometry, simplify_calls>>
    /\ UNCHANGED otherThanLoad

\* mesh.rs 118-127: (level_vertices, level_indices) of the next level i;
\* lines 129-170 build the level's meshlets from them
LevelGeometry ==
    /\ load_pc = "levels"
    /\ Len(level_geometry) < num_levels
    /\ LET i == Len(level_geometry) IN
       IF i = 0
       THEN /\ level_geometry' = <<[vertices |-> unique_vertices, indices |-> indices]>>
            /\ UNCHANGED simplify_calls
       ELSE /\ simplify_calls' = Append(simplify_calls, SimplifyCall(i))
            /\ \E simplified \in SimplifyResults(SimplifyCall(i)) :
                  level_geometry' =
                      Append(level_geometry,
                             [vertices |-> FetchVertices(simplified, unique_vertices),
                              indices |-> FetchIndices(simplified)])
    /\ UNCHANGED <<load_pc, obj_indices, corner_i, vertices, remap, unique_vertices, indices>>
    /\ UNCHANGED otherThanLoad

\* mesh.rs 117, 172-174: Ok(Self { levels })
MeshNewReturn ==
    /\ load_pc = "levels"
    /\ Len(level_geometry) = num_levels
    /\ load_pc' = "returned"
    /\ UNCHANGED <<obj_indices, corner_i, vertices, remap, unique_vertices, indices,
                   level_geometry, simplify_calls>>
    /\ UNCHANGED otherThanLoad

NextLoad ==
    \/ MeshNewLoad
    \/ MeshNewLoadErr
    \/ ExpandCorner
    \/ RemapVertices
    \/ OptimizeMesh
    \/ LevelGeometry
    \/ MeshNewReturn

InitLoadSpec == IdleFrame /\ IdleUpload /\ IdleBuffers /\ IdleMesh /\ IdleDraw /\ IdleTables /\ IdleLoad /\ IdleRun /\ IdleUniforms /\ IdleQuery /\ IdleBuilder

SpecLoad == InitLoadSpec /\ [][NextLoad]_vars

\* C11: after deduplication and re-indexing, the unique vertex the index array
\* names at corner i is the expanded vertex of corner i; two corners get the
\* same index exactly when their expanded vertices are identical; there are
\* no more unique vertices than corners.
C11_DedupRoundTrip ==
    load_pc = "remapped" =>
        /\ Len(indices) = Len(vertices)
        /\ \A i \in 1 .. Len(vertices) :
              /\ indices[i] < Len(unique_vertices)
              /\ unique_vertices[indices[i] + 1] = vertices[i]
        /\ \A i, k \in 1 .. Len(vertices) :
              (indices[i] = indices[k]) <=> (vertices[i] = vertices[k])
        /\ Len(unique_vertices) <= Len(vertices)

\* Two faces are re-indexed, two corners with different position indices but
\* identical values share one unique vertex.
C11_Witness ==
    /\ load_pc = "remapped"
    /\ Len(vertices) = 6
    /\ Len(unique_vertices) < Len(vertices)
    /\ \E i, k \in 1 .. Len(vertices) :
          obj_indices[i].p # obj_indices[k].p /\ indices[i] = indices[k]

\* C12: Mesh::new returns num_levels >= 1 levels; level 0 holds the optimized
\* vertices unmodified; every level i > 0 is simplified from the optimized
\* (vertices, indices) with target indices.len() >> i and error 100.
C12_LevelsFromLevelZero ==
    load_pc = "returned" =>
        /\ Len(level_geometry) = num_levels
        /\ num_levels >= 1
        /\ level_geometry[1].vertices = unique_vertices
        /\ level_geometry[1].indices = indices
        /\ Len(simplify_calls) = num_levels - 1
        /\ \A i \in 1 .. (num_levels - 1) :
              /\ simplify_calls[i].source_indices = indices
              /\ simplify_calls[i].source_vertices = unique_vertices
              /\ simplify_calls[i].target_index_count = Len(indices) \div 2 ^ i
              /\ simplify_calls[i].target_error = 100
              /\ Len(level_geometry[i + 1].indices) <= Len(indices) \div 2 ^ i

\* Mesh::new returns for a file of two faces; level 1 kept a triangle, so it
\* is shorter than level 0 and not empty.
C12_Witness ==
    /\ load_pc = "returned"
    /\ Len(indices) = 6
    /\ Len(level_geometry[2].indices) = 3
    /\ level_geometry[3].indices = <<>>

\* A corner of the file indexes outside one of the three source arrays.
MalformedIndex ==
    \E i \in 1 .. Len(obj_indices) :
        \/ obj_indices[i].p >= Len(positions) \div 3
        \/ obj_indices[i].t >= Len(tex_coords) \div 2
        \/ obj_indices[i].n >= Len(normals) \div 3

\* C13: with a face corner indexing outside a source array, Mesh::new never
\* returns a Mesh and builds no level; it panics, and the panic is final.
C13_MalformedIndexIsFatal ==
    MalformedIndex =>
        /\ load_pc \in {"expand", "panicked"}
        /\ level_geometry = <<>>
        /\ unique_vertices = <<>>

\* Mesh::new has panicked at a corner whose texture-coordinate or normal
\* index is out of bounds, after expanding a corner before it.
C13_Witness ==
    /\ load_pc = "panicked"
    /\ corner_i > 0
    /\ 3 * obj_indices[corner_i + 1].p + 2 < Len(positions)

\* ------------------------------- Mesh::new with a clustering step at fault

\* mesh.rs 129-135: build_meshlets emits a cluster that exceeds a maximum it
\* was given; the level's geometry is the input mesh.
BuildMeshletsDefect ==
    /\ mesh_pc = "build_meshlets"
    /\ level_i = 0
    /\ Len(clusters) < MaxClusters
    /\ \E shape \in ClusterShapes :
          /\ ~BuildMeshletsContract(shape, MAX_VERTICES, MAX_TRIANGLES)
          /\ clusters' = Append(clusters, MakeCluster(shape, 9 * Len(clusters)))
    /\ UNCHANGED <<mesh_pc, level_i, index_count, meshlet_data, index, meshlets>>
    /\ UNCHANGED otherThanMesh

NextMeshDefect ==
    \/ NextMesh
    \/ BuildMeshletsDefect

InitMeshDefectSpec == IdleFrame /\ IdleUpload /\ IdleBuffers /\ IdleMesh /\ IdleDraw /\ IdleTables /\ IdleLoad /\ IdleRun /\ IdleUniforms /\ IdleQuery /\ IdleBuilder

SpecMeshDefect == InitMeshDefectSpec /\ [][NextMeshDefect]_vars

\* C14: a cluster of more than 64 vertices or more than 124 triangles is
\* never packed into a Meshlet: Mesh::new fails before.
C14_OversizedClusterRejected ==
    \A k \in Produced :
        /\ Len(clusters[k].vertices) <= 64
        /\ Len(clusters[k].triangles) \div 3 <= 124

\* ------------------------------------------------ frame loop: more claims

\* The frames whose batch is on the GPU queue, not yet complete.
FramesExecuting == {gpu_queue[k].frame : k \in 1 .. Len(gpu_queue)}

\* The presentation engine takes the oldest present request.
PresentStarts == present_queue # <<>> /\ present_queue' = Tail(present_queue)

\* The GPU starts and completes the oldest batch.
BatchRuns == gpu_queue # <<>> /\ gpu_queue' = Tail(gpu_queue)

\* C15: in every frame the image is acquired before the batch is submitted and
\* the batch before the present request; the batch runs only once the
\* image-acquired semaphore is signaled, and the present of a frame does not
\* start before that frame's batch has completed.
C15_AcquireSubmitPresentOrder ==
    [][ /\ \A k \in 1 .. Len(gpu_queue') : gpu_queue'[k].image \in Images
        /\ \A k \in 1 .. Len(present_queue') :
              \/ present_queue'[k].frame < frame_count'
              \/ /\ present_queue'[k].frame = frame_count'
                 /\ pc' = "main_inc"
        /\ (pc' = "queue_present") =>
              (frame_count' \in FramesExecuting' \/ fence'[frame_index'])
        /\ BatchRuns => present_semaphore[Head(gpu_queue).slot] = "signaled"
        /\ PresentStarts => Head(present_queue).frame \notin FramesExecuting
      ]_vars

\* A frame is on screen while the batch of a later frame is still on the GPU
\* queue and that frame's present request waits.
C15_Witness ==
    /\ \E i \in Images : image_state[i] = "displayed"
    /\ gpu_queue # <<>>
    /\ present_queue # <<>>
    /\ Head(present_queue).frame \in FramesExecuting
\* The host records the frame's commands: render_frame_inner calls
\* MeshCollection::bind, which copies the constants into the one mapped
\* constants buffer.
HostWritesConstants == pc = "record" /\ pc' = "end_command_buffer"

\* C16: whenever the host overwrites the constants buffer while it records a
\* frame, no frame submitted before, whose commands read that buffer, is
\* still executing.
C16_ConstantsWriteSerialized ==
    [][HostWritesConstants => gpu_queue = <<>>]_vars

\* ------------------------------------------------- the life of RenderCtx

\* RenderCtx::new has created the instance, the device, the allocator and the
\* swapchain and is about to create the depth image.
InitRun ==
    /\ run_pc = "change_image_layout"
    /\ layout_fence = "none"
    /\ destroyed = <<>>

\* utils/mod.rs 36-73: the layout change is recorded and submitted with a fence.
ChangeImageLayoutSubmit ==
    /\ run_pc = "change_image_layout"
    /\ run_pc' = "layout_wait"
    /\ layout_fence' = "submitted"
    /\ UNCHANGED <<destroyed, frameVars, uploadVars>>
    /\ UNCHANGED otherThanRun

\* The GPU executes the layout change and signals its fence.
LayoutGpuComplete ==
    /\ layout_fence = "submitted"
    /\ layout_fence' = "signaled"
    /\ UNCHANGED <<run_pc, destroyed, frameVars, uploadVars>>
    /\ UNCHANGED otherThanRun

\* utils/mod.rs 76-80: wait_for_fences(fence, true, u64::MAX)?, then the fence
\* and the command pool are destroyed; render_ctx.rs 317-343: the descriptor
\* pool, the pipeline and the frames are created and MeshCollection::new is
\* called.
ChangeImageLayoutWait ==
    /\ run_pc = "layout_wait"
    /\ layout_fence = "signaled"
    /\ layout_fence' = "destroyed"
    /\ run_pc' = "load_meshes"
    /\ UNCHANGED <<destroyed, frameVars, uploadVars>>
    /\ UNCHANGED otherThanRun

\* MeshCollection::new: the calls of Buffer::new_device_local, one after the
\* other, each `?`-propagated (mesh.rs 204-218, 275-293); the GPU side of a
\* call runs whenever a copy is submitted.
LoadMeshes ==
    /\ \/ run_pc = "load_meshes" /\ upload.pc # "returned_err"
       \/ upload.copy = "submitted"
    /\ NextUpload

\* render_ctx.rs 315, 381: .unwrap() on the Err of create_depth_stencil_image
\* or of MeshCollection::new; a panic inside new_device_local unwinds through
\* RenderCtx::new as well. No RenderCtx exists, so no Drop runs.
RenderCtxNewPanic ==
    /\ \/ run_pc \in {"change_image_layout", "layout_wait"}
       \/ run_pc = "load_meshes" /\ upload.pc \in {"returned_err", "panicked"}
    /\ run_pc' = "panicked"
    /\ UNCHANGED <<layout_fence, destroyed, frameVars, uploadVars>>
    /\ UNCHANGED otherThanRun

\* RenderCtx::new returning as soon as no upload call is running, whether or
\* not every buffer has been uploaded.
RenderCtxNewReturnEarly ==
    /\ run_pc = "load_meshes"
    /\ upload.pc \in {"idle", "returned_ok"}
    /\ run_pc' = "rendering"
    /\ pc' = "main_loop"
    /\ UNCHANGED <<frame_count, frame_index, fence, present_semaphore,
                   render_semaphore, command_buffer, gpu_queue, present_queue,
                   image_state, image_index>>
    /\ UNCHANGED <<layout_fence, destroyed, uploadVars>>
    /\ UNCHANGED otherThanRun

\* render_ctx.rs 383-431, main.rs 26-36: every buffer is uploaded, RenderCtx::new
\* returns and main enters its loop.
RenderCtxNewReturn ==
    /\ run_pc = "load_meshes"
    /\ upload.pc = "returned_ok"
    /\ uploads_done = MaxUploads
    /\ run_pc' = "rendering"
    /\ pc' = "main_loop"
    /\ UNCHANGED <<frame_count, frame_index, fence, present_semaphore,
                   render_semaphore, command_buffer, gpu_queue, present_queue,
                   image_state, image_index>>
    /\ UNCHANGED <<layout_fence, destroyed, uploadVars>>
    /\ UNCHANGED otherThanRun

\* main.rs 116-117: main returns, or a panic of render_frame unwinds through
\* main; either way the local render_ctx is dropped.
DropRenderCtx ==
    /\ run_pc = "rendering"
    /\ pc \in {"exited", "panicked"}
    /\ run_pc' = "device_wait_idle"
    /\ UNCHANGED <<layout_fence, destroyed, frameVars, uploadVars>>
    /\ UNCHANGED otherThanRun

\* render_ctx.rs 437: device_wait_idle returns once the queue has nothing left.
DeviceWaitIdleReturns == gpu_queue = <<>>

DeviceWaitIdle ==
    /\ run_pc = "device_wait_idle"
    /\ DeviceWaitIdleReturns
    /\ run_pc' = "destroy"
    /\ UNCHANGED <<layout_fence, destroyed, frameVars, uploadVars>>
    /\ UNCHANGED otherThanRun

\* render_ctx.rs 437: .unwrap() on the Err of device_wait_idle: the rest of
\* drop does not run.
DeviceWaitIdlePanic ==
    /\ run_pc = "device_wait_idle"
    /\ run_pc' = "aborted"
    /\ UNCHANGED <<layout_fence, destroyed, frameVars, uploadVars>>
    /\ UNCHANGED otherThanRun

\* The allocator destroyed first, ahead of what was allocated from it.
DropOrderAllocatorFirst ==
    LET one(rs) == [k \in 1 .. Len(rs) |-> <<rs[k], 0>>] IN
    one(<<"allocator", "query_pool_pipeline_statistics", "query_pool_timestamp",
          "mesh_collection">>)
    \o [s \in 1 .. NUM_FRAMES |-> <<"frame", s - 1>>]
    \o one(<<"geometry_pipeline", "descriptor_pool", "depth_stencil_image",
             "swapchain_image_views", "swapchain", "device", "surface",
             "instance">>)

\* render_ctx.rs 439-474: what drop destroys after device_wait_idle, in the
\* order of the statements, each as <<name, index>>. Dropping mesh_collection
\* drops every Buffer it owns; each frame's Drop destroys its fence,
\* semaphores and command pool.
DropOrder ==
    LET one(rs) == [k \in 1 .. Len(rs) |-> <<rs[k], 0>>] IN
    one(<<"query_pool_pipeline_statistics", "query_pool_timestamp",
          "mesh_collection">>)
    \o [s \in 1 .. NUM_FRAMES |-> <<"frame", s - 1>>]
    \o one(<<"geometry_pipeline", "descriptor_pool", "depth_stencil_image",
             "swapchain_image_views", "swapchain", "allocator", "device",
             "surface", "instance">>)

\* One statement of drop.
DropStep ==
    /\ run_pc = "destroy"
    /\ Len(destroyed) < Len(DropOrder)
    /\ destroyed' = Append(destroyed, DropOrder[Len(destroyed) + 1])
    /\ UNCHANGED <<run_pc, layout_fence, frameVars, uploadVars>>
    /\ UNCHANGED otherThanRun

NextRun ==
    \/ ChangeImageLayoutSubmit
    \/ LayoutGpuComplete
    \/ ChangeImageLayoutWait
    \/ LoadMeshes
    \/ RenderCtxNewPanic
    \/ RenderCtxNewReturn
    \/ NextFrame
    \/ DropRenderCtx
    \/ DeviceWaitIdle
    \/ DeviceWaitIdlePanic
    \/ DropStep

InitRunSpec == IdleFrame /\ IdleUpload /\ IdleBuffers /\ IdleMesh /\ IdleDraw /\ IdleTables /\ IdleLoad /\ InitRun /\ IdleUniforms /\ IdleQuery /\ IdleBuilder

SpecRun == InitRunSpec /\ [][NextRun]_vars
\* The steps with which the host goes on when the call it is in returns
\* normally: every host action except the injected failures.
HostReturns ==
    \/ ChangeImageLayoutSubmit
    \/ ChangeImageLayoutWait
    \/ /\ run_pc = "load_meshes"
       /\ upload.pc # "returned_err"
       /\ \/ UploadCall
          \/ UploadCreateStaging
          \/ UploadMemcpy
          \/ UploadCreateBuffer
          \/ UploadGetAddress
          \/ UploadCreateCommandPool
          \/ UploadAllocateCommandBuffers
          \/ UploadCreateFence
          \/ UploadRecord
          \/ UploadQueueSubmit
          \/ UploadWaitForFences
          \/ UploadDestroyFence
          \/ UploadFreeCommandBuffers
          \/ UploadDestroyCommandPool
          \/ UploadDestroyStaging
          \/ UploadReturnOk
    \/ RenderCtxNewReturn
    \/ MainCallRenderFrame
    \/ MainQuit
    \/ WaitForFences
    \/ ResetFences
    \/ ResetCommandPool
    \/ AcquireNextImage
    \/ BeginCommandBuffer
    \/ RecordCommands
    \/ EndCommandBuffer
    \/ QueueSubmit
    \/ QueuePresent
    \/ MainNextFrame
    \/ DropRenderCtx
    \/ DeviceWaitIdle
    \/ DropStep

\* The host has not terminated: it has not panicked and drop has not finished.
HostRunning ==
    /\ run_pc \notin {"panicked", "aborted"}
    /\ ~(run_pc = "load_meshes" /\ upload.pc \in {"returned_err", "panicked"})
    /\ ~(run_pc = "destroy" /\ Len(destroyed) = Len(DropOrder))

\* The host is inside a call that cannot return in the current state: it
\* waits for the GPU or the presentation engine.
HostBlocked == HostRunning /\ ~ENABLED HostReturns

\* The call the host is in.
HostCall ==
    CASE run_pc = "load_meshes" -> <<"new_device_local", upload.pc>>
      [] run_pc = "rendering" -> <<"render_frame", pc>>
      [] OTHER -> <<"RenderCtx", run_pc>>

\* C17 as stated: the host blocks only at the fence wait of the device-local
\* upload and at the per-frame fence wait of render_frame.
C17_OnlyFenceWaitsBlock ==
    HostBlocked =>
        HostCall \in {<<"new_device_local", "wait_for_fences">>,
                      <<"render_frame", "wait_for_fences">>}

\* C17, amended: the host blocks only at the fence wait of the device-local
\* upload, the fence wait of change_image_layout, the per-frame fence wait of
\* render_frame, acquire_next_image, and the device_wait_idle of drop.
C17_BlockingPoints ==
    HostBlocked =>
        HostCall \in {<<"new_device_local", "wait_for_fences">>,
                      <<"RenderCtx", "layout_wait">>,
                      <<"render_frame", "wait_for_fences">>,
                      <<"render_frame", "acquire_next_image">>,
                      <<"RenderCtx", "device_wait_idle">>}

\* The host is blocked in acquire_next_image: every swapchain image is with
\* the presentation engine or the GPU.
C17_Witness ==
    /\ HostBlocked
    /\ HostCall = <<"render_frame", "acquire_next_image">>
\* A Vulkan call, an allocation or a buffer creation has failed: render_frame
\* panicked, new_device_local returned Err or panicked, or RenderCtx::new or
\* drop panicked.
Failed ==
    \/ pc = "panicked"
    \/ upload.pc \in {"returned_err", "panicked"}
    \/ run_pc \in {"panicked", "aborted"}

\* C18: a failure is a hard stop. From a state in which a call has failed, no
\* step re-enters render_frame or new_device_local (the failed operation is
\* not retried), no step submits a batch to the queue or a present request,
\* and the frame counter stays where it is.
C18_FailureIsHardStop ==
    [][Failed =>
         /\ Failed'
         /\ pc' = pc
         /\ upload'.pc = upload.pc
         /\ frame_count' = frame_count
         /\ Len(gpu_queue') <= Len(gpu_queue)
         /\ Len(present_queue') <= Len(present_queue)
         /\ (upload'.copy = "submitted") => (upload.copy = "submitted")
         /\ (layout_fence' = "submitted") => (layout_fence = "submitted")
      ]_vars

\* render_frame panicked after at least one frame had been submitted, and the
\* program has gone on to the destroy calls of drop.
C18_Witness ==
    /\ pc = "panicked"
    /\ frame_count > 0
    /\ run_pc = "destroy"
    /\ destroyed # <<>>
\* Everything called `b` that drop has destroyed was destroyed after `a`.
DestroyedBefore(a, b) ==
    \A j \in 1 .. Len(destroyed) :
        destroyed[j] = b => \E i \in 1 .. j - 1 : destroyed[i] = a

\* C19: drop destroys in dependency order. Once anything is destroyed no
\* submitted work is left on the GPU; the mesh collection, which owns every
\* Buffer, and every frame slot go before the allocator and the device; the
\* allocator goes before the device; the device before the surface and the
\* instance.
C19_TeardownOrder ==
    /\ destroyed # <<>> =>
          /\ gpu_queue = <<>>
          /\ upload.copy # "submitted"
          /\ layout_fence # "submitted"
    /\ \A late \in {"allocator", "device"} :
          /\ DestroyedBefore(<<"mesh_collection", 0>>, <<late, 0>>)
          /\ \A s \in Slots : DestroyedBefore(<<"frame", s>>, <<late, 0>>)
    /\ DestroyedBefore(<<"allocator", 0>>, <<"device", 0>>)
    /\ DestroyedBefore(<<"device", 0>>, <<"surface", 0>>)
    /\ DestroyedBefore(<<"device", 0>>, <<"instance", 0>>)

\* drop has run to its end after frames were rendered.
C19_Witness ==
    /\ frame_count > 0
    /\ run_pc = "destroy"
    /\ Len(destroyed) = Len(DropOrder)
    /\ destroyed[Len(destroyed)] = <<"instance", 0>>
\* Every device-local buffer of the load is uploaded: each call has returned
\* Ok, and the copy of the latest has completed with the data passed in.
UploadsFinished ==
    /\ uploads_done = MaxUploads
    /\ upload.pc = "returned_ok"
    /\ upload.copy = "complete"
    /\ upload.buffer_data = upload.data

\* C20: uploads are serialized and finished before rendering. A call of
\* new_device_local starts only while no copy is in flight; from the moment
\* main enters its loop every upload has completed; and no step taken after
\* that (render_frame, the GPU, the presentation engine, drop) changes what
\* the uploads left behind.
C20_UploadsBeforeRendering ==
    [][ /\ (upload'.pc = "create_staging" /\ upload.pc # "create_staging") =>
              upload.copy # "submitted"
        /\ (pc' # "not_started") => UploadsFinished'
        /\ (pc # "not_started") => UNCHANGED uploadVars
      ]_vars

\* A frame is on the GPU queue after two uploads of data.
C20_Witness ==
    /\ gpu_queue # <<>>
    /\ UploadsFinished
    /\ upload.data # <<>>
\* ------------------------------------------- the frame loop, no failures

\* The frame loop in which no Vulkan call fails.
NextFrameLive ==
    \/ MainCallRenderFrame
    \/ MainQuit
    \/ WaitForFences
    \/ ResetFences
    \/ ResetCommandPool
    \/ AcquireNextImage
    \/ BeginCommandBuffer
    \/ RecordCommands
    \/ EndCommandBuffer
    \/ QueueSubmit
    \/ QueuePresent
    \/ MainNextFrame
    \/ ImageAvailable
    \/ GpuComplete
    \/ PresentComplete

\* The statements of render_frame and the increment that follows it in main:
\* the host thread runs whatever statement it is at when that can return.
RenderFrameStep ==
    \/ WaitForFences
    \/ ResetFences
    \/ ResetCommandPool
    \/ AcquireNextImage
    \/ BeginCommandBuffer
    \/ RecordCommands
    \/ EndCommandBuffer
    \/ QueueSubmit
    \/ QueuePresent
    \/ MainNextFrame

\* The host thread keeps running, the GPU eventually completes the batch at
\* the head of its queue, and the presentation engine eventually hands out an
\* acquired image and serves the present request at the head of its queue.
SpecFrameLive ==
    /\ InitFrameSpec
    /\ [][NextFrameLive]_vars
    /\ WF_vars(RenderFrameStep)
    /\ WF_vars(ImageAvailable)
    /\ WF_vars(GpuComplete)
    /\ WF_vars(PresentComplete)

\* C21: with a GPU and a presentation engine that make progress, the first
\* use of each slot finds its fence signaled, and every call of render_frame
\* that has reached its fence wait submits its frame and returns to main
\* with the frame counter still at that frame.
C21_RenderFrameReturns ==
    /\ [](pc = "wait_for_fences" /\ frame_count < NUM_FRAMES => fence[frame_index])
    /\ \A k \in 0 .. MaxFrames :
          (pc = "wait_for_fences" /\ frame_count = k)
              ~> (pc = "main_inc" /\ frame_count = k)

\* The call of render_frame that reuses a slot has returned.
C21_Witness ==
    /\ pc = "main_inc"
    /\ frame_count >= NUM_FRAMES
\* The phase of a frame slot, read off its fence and the queue.
SlotPhase(s) ==
    IF s \in SlotsInFlight THEN "Submitted"
    ELSE IF fence[s] THEN "Idle"
    ELSE "Recording"

\* What C22 asks of one step of the frame loop.
SlotCycleStep ==
    /\ \A s \in Slots :
          \/ SlotPhase(s)' = SlotPhase(s)
          \/ SlotPhase(s) = "Idle" /\ SlotPhase(s)' = "Recording"
          \/ SlotPhase(s) = "Recording" /\ SlotPhase(s)' = "Submitted"
          \/ SlotPhase(s) = "Submitted" /\ SlotPhase(s)' = "Idle"
    /\ \A s \in Slots :
          SlotPhase(s)' = "Recording" =>
              (s = frame_index' /\ (HostOwnsSlot' \/ pc' = "panicked"))
    /\ (pc = "queue_submit" /\ pc' = "queue_present") =>
          /\ ~fence[frame_index]
          /\ SlotPhase(frame_index) = "Recording"
          /\ frame_index = frame_count % NUM_FRAMES
    /\ \A k \in 1 .. Len(gpu_queue') :
          /\ ~fence'[gpu_queue'[k].slot]
          /\ gpu_queue'[k].slot = gpu_queue'[k].frame % NUM_FRAMES

\* C22: every slot starts Idle and moves only Idle -> Recording -> Submitted
\* -> Idle; only the slot of the running render_frame is Recording; the fence
\* handed to queue_submit is unsignaled and stays so while the batch is on
\* the queue; and frame k is submitted with slot k mod NUM_FRAMES.
C22_SlotCycle ==
    /\ \A s \in Slots : SlotPhase(s) = "Idle"
    /\ [][SlotCycleStep]_vars

\* A slot is submitted for the second time.
C22_Witness ==
    /\ pc = "queue_present"
    /\ frame_count >= NUM_FRAMES
    /\ SlotPhase(frame_index) = "Submitted"
\* The words the packing loop wrote for the triangles of the k-th meshlet:
\* from the end of its vertex list to where the next meshlet starts.
PackedWordsWritten(k) ==
    (IF k < Len(meshlets) THEN meshlets[k + 1].data_offset ELSE index)
        - meshlets[k].data_offset - meshlets[k].vertex_count

\* The j-th (1-based) packed word of the k-th meshlet.
PackedWordAt(k, j) ==
    meshlet_data[meshlets[k].data_offset + meshlets[k].vertex_count + j]

\* C23 as stated: a meshlet with 5 triangles has 2 packed words, and the
\* second holds local index number 12 in its upper byte and zero in the other
\* lanes.
C23_FiveTrianglesTwoWords ==
    \A k \in Produced :
        meshlets[k].triangle_count = 5 =>
            /\ PackedWordsWritten(k) = 2
            /\ ByteLane(PackedWordAt(k, 2), 0) = clusters[k].triangles[13]
            /\ \A lane \in 1 .. 3 : ByteLane(PackedWordAt(k, 2), lane) = 0

\* C23, amended: a meshlet with 5 triangles has 15 local indices in 4 packed
\* words; the second word holds indices 4..7, and the fourth holds indices
\* 12, 13 and 14 (triangle 4) in its upper three bytes and zero in the lowest.
C23_FiveTrianglesFourWords ==
    \A k \in Produced :
        meshlets[k].triangle_count = 5 =>
            /\ PackedWordsWritten(k) = 4
            /\ \A lane \in 0 .. 3 :
                  ByteLane(PackedWordAt(k, 2), lane) = clusters[k].triangles[5 + lane]
            /\ \A lane \in 0 .. 2 :
                  ByteLane(PackedWordAt(k, 4), lane) = clusters[k].triangles[13 + lane]
            /\ ByteLane(PackedWordAt(k, 4), 3) = 0

\* A meshlet with 5 triangles is packed behind another meshlet, and its
\* local index number 12 is not zero.
C23_Witness ==
    \E k \in Produced :
        /\ k > 1
        /\ meshlets[k].triangle_count = 5
        /\ PackedWordsWritten(k) = 4
        /\ clusters[k].triangles[13] # 0
\* C24: when a level is built, the length of meshlet_data is the final write
\* cursor, which is the sum over the level's meshlets of vertex_count +
\* ceil(3 * triangle_count / 4): no word of the blob is outside every
\* meshlet.
C24_BlobExactlyFilled ==
    mesh_pc = "level_built" =>
        /\ index = SumOver([k \in 1 .. Len(meshlets) |->
                               meshlets[k].vertex_count + PackedWordsOf(meshlets[k])],
                           Len(meshlets))
        /\ Len(meshlet_data) = index
\* C25: every level built for a mesh with at least one triangle holds at
\* least one meshlet and at least one meshlet-data word, so that the slices
\* handed to Buffer::new_device_local are not empty.
C25_LevelsNonEmpty ==
    (mesh_pc = "level_built" /\ index_count >= 3) =>
        /\ Len(meshlets) >= 1
        /\ Len(meshlet_data) >= 1
\* ------------------------------------------------ mapped uniform buffers

\* The alignments a build can give glam's Mat4 and Vec4: 16 with SIMD (the
\* default on x86_64), 4 with scalar math.
GlamAligns == {4, 16}

\* size and alignment of the field types
Mat4 == [size |-> 64, align |-> glam_align]
Vec4x6 == [size |-> 96, align |-> glam_align]
Vec3 == [size |-> 12, align |-> 4]
F32 == [size |-> 4, align |-> 4]

AlignUp(n, a) == ((n + a - 1) \div a) * a

\* The offset just past the k-th field of a repr(C) struct.
RECURSIVE FieldEnd(_, _)
FieldEnd(fields, k) ==
    IF k = 0 THEN 0
    ELSE AlignUp(FieldEnd(fields, k - 1), fields[k].align) + fields[k].size

\* mem::size_of of a repr(C) struct: the end of the last field rounded up to
\* the largest field alignment.
SizeOfReprC(fields) ==
    LET align == CHOOSE a \in {fields[k].align : k \in 1 .. Len(fields)} :
                     \A k \in 1 .. Len(fields) : fields[k].align <= a
    IN AlignUp(FieldEnd(fields, Len(fields)), align)

\* mesh.rs 310-314: struct Constants
Constants == <<Mat4, Vec3>>

\* globals.rs 10-17: struct Globals
Globals == <<Mat4, Vec4x6, Vec3, F32>>

\* Buffer::new_uniform(size): a mapped buffer of `size` bytes, its words not
\* yet written.
NewUniform(size) ==
    [size |-> size, words |-> [k \in 1 .. size \div 4 |-> 0 - 1], overrun |-> 0]

\* libc::memcpy(mapped_data, src, n): the first n bytes of the source land in
\* the mapping; what does not fit in the buffer's size is written past it.
Memcpy(buffer, src, n) ==
    [size |-> buffer.size,
     words |-> [k \in 1 .. Len(buffer.words) |->
                   IF k <= n \div 4 THEN src[k] ELSE buffer.words[k]],
     overrun |-> IF n > buffer.size THEN n - buffer.size ELSE buffer.overrun]

\* The words of a value of a struct: each field filled with its value, the
\* padding with zero.
StructWords(fields, values) ==
    [w \in 1 .. SizeOfReprC(fields) \div 4 |->
        LET inside == {k \in 1 .. Len(fields) :
                         /\ 4 * (w - 1) >= FieldEnd(fields, k) - fields[k].size
                         /\ 4 * (w - 1) < FieldEnd(fields, k)}
        IN IF inside = {} THEN 0 ELSE values[CHOOSE k \in inside : TRUE]]

\* The values a field is given.
FieldValues == 1 .. MaxFieldValue

\* mesh.rs 238: Buffer::new_uniform(size_of::<Mat4>() + size_of::<Vec3>())
MeshCollectionNewConstants ==
    /\ constants_buffer = NoUniform
    /\ constants_buffer' = NewUniform(Mat4.size + Vec3.size)
    /\ UNCHANGED <<glam_align, uniform_buffer>>
    /\ UNCHANGED otherThanUniforms

\* mesh.rs 309-324: bind copies size_of::<Constants>() bytes
MeshCollectionBind ==
    /\ constants_buffer # NoUniform
    /\ \E m, c \in FieldValues :
          constants_buffer' = Memcpy(constants_buffer, StructWords(Constants, <<m, c>>),
                                     SizeOfReprC(Constants))
    /\ UNCHANGED <<glam_align, uniform_buffer>>
    /\ UNCHANGED otherThanUniforms

\* globals.rs 42-44: Buffer::new_uniform(size_of::<Globals>())
GlobalsBuffersNew ==
    /\ uniform_buffer = NoUniform
    /\ uniform_buffer' = NewUniform(SizeOfReprC(Globals))
    /\ UNCHANGED <<glam_align, constants_buffer>>
    /\ UNCHANGED otherThanUniforms

\* globals.rs 88-96: update copies size_of::<Globals>() bytes
GlobalsBuffersUpdate ==
    /\ uniform_buffer # NoUniform
    /\ \E m, c, t \in FieldValues :
          uniform_buffer' = Memcpy(uniform_buffer, StructWords(Globals, <<m, m, c, t>>),
                                   SizeOfReprC(Globals))
    /\ UNCHANGED <<glam_align, constants_buffer>>
    /\ UNCHANGED otherThanUniforms

NextUniforms ==
    \/ MeshCollectionNewConstants
    \/ MeshCollectionBind
    \/ GlobalsBuffersNew
    \/ GlobalsBuffersUpdate

InitUniforms ==
    /\ glam_align \in GlamAligns
    /\ constants_buffer = NoUniform
    /\ uniform_buffer = NoUniform

InitUniformsSpec == IdleFrame /\ IdleUpload /\ IdleBuffers /\ IdleMesh /\ IdleDraw /\ IdleTables /\ IdleLoad /\ IdleRun /\ InitUniforms /\ IdleQuery /\ IdleBuilder

SpecUniforms == InitUniformsSpec /\ [][NextUniforms]_vars

\* C26: no copy into a mapped uniform buffer writes past the size with which
\* the buffer was created: not the copy of Constants in MeshCollection::bind,
\* not the copy of Globals in GlobalsBuffers::update.
C26_UniformWritesInBounds ==
    /\ constants_buffer.overrun = 0
    /\ uniform_buffer.overrun = 0
\* C27: a slot's binary semaphores are signaled only when no earlier signal
\* is outstanding. When a batch completes and signals the slot's render
\* semaphore, the present request of the slot's previous frame has consumed
\* the earlier signal; when acquire_next_image is given the slot's present
\* semaphore, the previous batch of the slot has consumed the earlier signal.
C27_NoSignalWhilePending ==
    [][ /\ BatchRuns => render_semaphore[Head(gpu_queue).slot] = "unsignaled"
        /\ (pc = "acquire_next_image" /\ pc' = "begin_command_buffer") =>
              present_semaphore[frame_index] = "unsignaled"
      ]_vars
\* C28: when Buffer::new_device_local has returned, with Ok or with Err, the
\* staging buffer, the command pool and the fence it created are destroyed,
\* and after an Err the destination buffer is not left allocated.
C28_NoTemporaryOutlivesCall ==
    upload.pc \in {"returned_ok", "returned_err"} =>
        /\ upload.staging # "live"
        /\ upload.command_pool # "live"
        /\ upload.fence # "live"
        /\ upload.pc = "returned_err" => upload.buffer # "live"
\* --------------------------------------------------------------- QueryPool

\* The names given to write_timestamp.
TimestampNames == {"begin", "end", "cull"}

\* query_pool.rs 16-37: QueryPool::new(device, query_count, query_type)
QueryPoolNew ==
    /\ query_count = 0
    /\ \E n \in 1 .. MaxQueryCount : query_count' = n
    /\ current_idx' = 0
    /\ entries' = {}
    /\ UNCHANGED query_results
    /\ UNCHANGED otherThanQuery

\* query_pool.rs 46-50: cmd_write_timestamp2(.., current_idx);
\* entries.insert(name, current_idx); current_idx += 1
WriteTimestampBody(name) ==
    /\ entries' = {e \in entries : e[1] # name} \cup {<<name, current_idx>>}
    /\ current_idx' = current_idx + 1

\* query_pool.rs 39-51
WriteTimestamp ==
    /\ query_count > 0
    /\ current_idx < MaxWrites
    /\ \E name \in TimestampNames : WriteTimestampBody(name)
    /\ UNCHANGED <<query_count, query_results>>
    /\ UNCHANGED otherThanQuery

\* query_pool.rs 53-59
QueryPoolReset ==
    /\ query_count > 0
    /\ current_idx' = 0
    /\ entries' = {}
    /\ UNCHANGED <<query_count, query_results>>
    /\ UNCHANGED otherThanQuery

\* query_pool.rs 62-77: results has query_count elements; results[idx] for
\* each entry panics when idx is out of range.
GetResults ==
    /\ query_count > 0
    /\ query_results' = IF \E e \in entries : e[2] >= query_count
                        THEN <<"panic">>
                        ELSE <<"ok", {e[1] : e \in entries}>>
    /\ UNCHANGED <<query_count, current_idx, entries>>
    /\ UNCHANGED otherThanQuery

NextQuery ==
    \/ QueryPoolNew
    \/ WriteTimestamp
    \/ QueryPoolReset
    \/ GetResults

InitQuerySpec == IdleFrame /\ IdleUpload /\ IdleBuffers /\ IdleMesh /\ IdleDraw /\ IdleTables /\ IdleLoad /\ IdleRun /\ IdleUniforms /\ IdleQuery /\ IdleBuilder

SpecQuery == InitQuerySpec /\ [][NextQuery]_vars

\* C29: for a pool created with query_count = n, current_idx never exceeds n
\* and every index stored in entries is below n, so that get_results reads in
\* range; reset leaves current_idx at 0 and entries empty; and each
\* write_timestamp stores the index current_idx had, the number of writes
\* since the latest reset.
C29_QueryIndicesInRange ==
    /\ query_count > 0 =>
          /\ current_idx <= query_count
          /\ \A e \in entries : e[2] < query_count
          /\ query_results # <<"panic">>
    /\ \A e \in entries : e[2] < current_idx
    /\ current_idx = 0 => entries = {}
\* ------------------------------------------------------------- MeshBuilder

\* A Vertex with the given position, in units of 0.001, and every other
\* field at its default.
VertexAt(x, y, z) == [position |-> <<x, y, z>>, tex_coord |-> <<0, 0>>,
                      normal |-> <<0, 0, 0>>]

\* The quads handed to add_quad.
QuadInputs ==
    { <<VertexAt(0, 0, 0), VertexAt(1000, 0, 0), VertexAt(1000, 0, 1000),
        VertexAt(0, 0, 1000)>>,
      <<VertexAt(5, 5, 5), VertexAt(5, 5, 5), VertexAt(5, 5, 5), VertexAt(5, 5, 5)>>,
      <<VertexAt(0, 0, 0), VertexAt(0, 1000, 0), VertexAt(0 - 1000, 1000, 0),
        VertexAt(0 - 1000, 0, 0)>> }

\* The positions and scales handed to add_nano_mesh.
NanoInputs == { <<<<0, 0, 0>>, 1>>, <<<<100, 0, 100>>, 3>> }

\* idx_offset taken after the four vertices were pushed.
IdxOffsetAfterPush(vs) == Len(vs) + 4

\* mesh_builder.rs 20: idx_offset = self.vertices.len() as u32
IdxOffset(vs) == Len(vs)

\* mesh_builder.rs 19-33: the builder after add_quad(v0, v1, v2, v3)
AddQuadTo(b, quad) ==
    LET idx_offset == IdxOffset(b.vertices) IN
    [vertices |-> b.vertices \o quad,
     indices |-> b.indices \o <<idx_offset, idx_offset + 1, idx_offset + 3,
                                idx_offset + 3, idx_offset + 1, idx_offset + 2>>]

\* mesh_builder.rs 36-91: the three quads of add_nano_mesh(pos, scale)
NanoQuads(pos, scale) ==
    LET at(dx, dy, dz) ==
            VertexAt(pos[1] + dx * scale, pos[2] + dy * scale, pos[3] + dz * scale)
    IN << <<at(0 - 2, 0, 0), at(2, 0, 0), at(2, 10, 0), at(0 - 2, 10, 0)>>,
          <<at(0, 0, 0 - 2), at(0, 0, 2), at(0, 10, 2), at(0, 10, 0 - 2)>>,
          <<at(0 - 2, 10, 0 - 2), at(2, 10, 0 - 2), at(2, 10, 2), at(0 - 2, 10, 2)>> >>

\* mesh_builder.rs 19-33
AddQuad ==
    /\ mb_built = <<>>
    /\ mb_quads < MaxQuads
    /\ \E quad \in QuadInputs :
          LET b == AddQuadTo([vertices |-> mb_vertices, indices |-> mb_indices], quad)
          IN /\ mb_vertices' = b.vertices
             /\ mb_indices' = b.indices
    /\ mb_quads' = mb_quads + 1
    /\ UNCHANGED mb_built
    /\ UNCHANGED otherThanBuilder

\* mesh_builder.rs 35-92: three calls of add_quad
AddNanoMesh ==
    /\ mb_built = <<>>
    /\ mb_quads + 3 <= MaxQuads
    /\ \E input \in NanoInputs :
          LET quads == NanoQuads(input[1], input[2])
              b == AddQuadTo(AddQuadTo(AddQuadTo([vertices |-> mb_vertices,
                                                  indices |-> mb_indices],
                                                 quads[1]), quads[2]), quads[3])
          IN /\ mb_vertices' = b.vertices
             /\ mb_indices' = b.indices
    /\ mb_quads' = mb_quads + 3
    /\ UNCHANGED mb_built
    /\ UNCHANGED otherThanBuilder

\* mesh_builder.rs 94-96: build consumes the builder
MeshBuilderBuild ==
    /\ mb_built = <<>>
    /\ mb_built' = <<mb_vertices, mb_indices>>
    /\ UNCHANGED <<mb_vertices, mb_indices, mb_quads>>
    /\ UNCHANGED otherThanBuilder

NextBuilder ==
    \/ AddQuad
    \/ AddNanoMesh
    \/ MeshBuilderBuild

InitBuilderSpec == IdleFrame /\ IdleUpload /\ IdleBuffers /\ IdleMesh /\ IdleDraw /\ IdleTables /\ IdleLoad /\ IdleRun /\ IdleUniforms /\ IdleQuery /\ IdleBuilder

SpecBuilder == InitBuilderSpec /\ [][NextBuilder]_vars

\* The six indices of the k-th (0-based) quad.
QuadIndices(k) == <<4 * k, 4 * k + 1, 4 * k + 3, 4 * k + 3, 4 * k + 1, 4 * k + 2>>

\* C30: with q quads added, the builder holds 4q vertices and 6q indices,
\* every index is below the number of vertices, the indices of the k-th quad
\* are (4k, 4k+1, 4k+3, 4k+3, 4k+1, 4k+2), build returns exactly the two
\* arrays, and a call only appends: what was there before stays as it was.
C30_QuadLayout ==
    /\ [](/\ Len(mb_vertices) = 4 * mb_quads
          /\ Len(mb_indices) = 6 * mb_quads
          /\ \A i \in 1 .. Len(mb_indices) : mb_indices[i] < Len(mb_vertices)
          /\ \A k \in 0 .. mb_quads - 1 :
                SubSeq(mb_indices, 6 * k + 1, 6 * k + 6) = QuadIndices(k)
          /\ mb_built # <<>> => mb_built = <<mb_vertices, mb_indices>>)
    /\ [][/\ SubSeq(mb_vertices', 1, Len(mb_vertices)) = mb_vertices
          /\ SubSeq(mb_indices', 1, Len(mb_indices)) = mb_indices]_vars

\* build has returned a mesh of a nano mesh followed by one more quad.
C30_Witness ==
    /\ mb_built # <<>>
    /\ mb_quads = 4
    /\ mb_vertices[1].position = <<0 - 2, 0, 0>>
    /\ mb_vertices[13].position = <<5, 5, 5>>

====
